---- MODULE Spec2Model ----
(***************************************************************************)
(* Model of the Context Utils editor plugin: the replacement engine        *)
(* (contextUtils-replaceRange / contextUtils-batchReplace), the context    *)
(* detection engine (detectContextAtPosition and its helpers) and the      *)
(* command handlers that turn a detected context into a replacement.       *)
(*                                                                         *)
(* Text is a sequence of one-character strings; offsets are 0-based as in  *)
(* CodeMirror, so the character at offset p is d[p+1].                     *)
(***************************************************************************)
EXTENDS Integers, Sequences, FiniteSets, TLC

VARIABLES doc, tree, sel, lastRightClickPos, menu, pending, last

vars == <<doc, tree, sel, lastRightClickPos, menu, pending, last>>

(***************************************************************************)
(* Bounds of the model.                                                    *)
(***************************************************************************)
\* longest document the replacement-engine specification explores
MaxDocLen == 2
\* longest list of entries handed to batchReplace
MaxBatch == 2

Min(a, b) == IF a < b THEN a ELSE b
Max(a, b) == IF a > b THEN a ELSE b

(***************************************************************************)
(* JavaScript values that reach the registered commands.  A value carries  *)
(* its typeof-tag; n is the number and s the string when defined.          *)
(***************************************************************************)
JsString(s) == [t |-> "string", n |-> 0, s |-> s]
JsNumber(n) == [t |-> "number", n |-> n, s |-> <<>>]
JsNaN == [t |-> "NaN", n |-> 0, s |-> <<>>]
JsInfinity == [t |-> "Infinity", n |-> 0, s |-> <<>>]
JsUndefined == [t |-> "undefined", n |-> 0, s |-> <<>>]
JsNull == [t |-> "null", n |-> 0, s |-> <<>>]

\* typeof x === 'number' (NaN and Infinity are numbers)
IsNumber(x) == x.t \in {"number", "NaN", "Infinity"}
\* Number.isFinite(x)
IsFinite(x) == x.t = "number"

(***************************************************************************)
(* The host editor (CodeMirror): Text.sliceString and view.dispatch.       *)
(***************************************************************************)
\* doc.sliceString(from, to): both ends are clipped to the document
SliceString(d, from, to) ==
    LET f == Max(0, Min(Len(d), from))
        t == Max(f, Min(Len(d), to))
    IN SubSeq(d, f + 1, t)

\* ChangeSet.of rejects a range with from > to, from < 0 or to > length
ValidChange(d, c) == ~(c.from > c.to \/ c.from < 0 \/ c.to > Len(d))

ChangesThrow(d, changes) == \E i \in 1..Len(changes) : ~ValidChange(d, changes[i])

\* the changes of a transaction whose insertion is anchored at offset p, in the
\* order the change set keeps them: shorter replaced range first, then list order
RECURSIVE InsertedAt(_, _, _)
InsertedAt(changes, p, S) ==
    IF S = {} THEN <<>>
    ELSE LET i == CHOOSE x \in S : \A y \in S :
                     \/ (changes[x].to - changes[x].from) < (changes[y].to - changes[y].from)
                     \/ /\ (changes[x].to - changes[x].from) = (changes[y].to - changes[y].from)
                        /\ x <= y
         IN changes[i].insert \o InsertedAt(changes, p, S \ {i})

\* view.dispatch({changes}): every range is read against the document the
\* transaction starts from; a character survives iff no range covers it
RECURSIVE BuildDoc(_, _, _)
BuildDoc(d, changes, p) ==
    IF p > Len(d) THEN <<>>
    ELSE InsertedAt(changes, p, {i \in 1..Len(changes) : changes[i].from = p})
         \o (IF p < Len(d) /\ ~(\E i \in 1..Len(changes) : changes[i].from <= p /\ p < changes[i].to)
             THEN <<d[p + 1]>> ELSE <<>>)
         \o BuildDoc(d, changes, p + 1)

\* variant: the changes are applied one after the other, each against the
\* document the previous one left
RECURSIVE ApplyChangesSequential(_, _)
ApplyChangesSequential(d, changes) ==
    IF changes = <<>> THEN d
    ELSE ApplyChangesSequential(
             SubSeq(d, 1, Min(Len(d), Head(changes).from)) \o Head(changes).insert
                 \o SubSeq(d, Min(Len(d), Head(changes).to) + 1, Len(d)),
             Tail(changes))

ApplyChanges(d, changes) == BuildDoc(d, changes, 0)

\* outcome of one view.dispatch call: the new document, or a throw that
\* leaves the document alone (invalid range, or a failure inside the host)
Dispatch(d, changes, hostThrows) ==
    IF hostThrows \/ ChangesThrow(d, changes)
    THEN [threw |-> TRUE, doc |-> d]
    ELSE [threw |-> FALSE, doc |-> ApplyChanges(d, changes)]

(***************************************************************************)
(* contextUtils-replaceRange                                               *)
(***************************************************************************)
\* variant: the order of from and to is not checked
ReplaceRangeInputOkUnordered(newText, from, to) ==
    /\ newText.t = "string"
    /\ IsNumber(from) /\ IsNumber(to) /\ IsFinite(from) /\ IsFinite(to)

\* the three input checks that precede the try block
ReplaceRangeInputOk(newText, from, to) ==
    /\ newText.t = "string"
    /\ IsNumber(from) /\ IsNumber(to) /\ IsFinite(from) /\ IsFinite(to)
    /\ ~(from.n > to.n)

\* variant: only the lengths of the two texts are compared
ExpectedTextMismatchLengthOnly(d, from, to, expectedText) ==
    /\ expectedText.t # "undefined"
    /\ ~(expectedText.t = "string" /\ Len(SliceString(d, from, to)) = Len(expectedText.s))

\* variant: a call that supplies no expectedText is treated as a mismatch
ExpectedTextMismatchMandatory(d, from, to, expectedText) ==
    ~(expectedText.t = "string" /\ SliceString(d, from, to) = expectedText.s)

\* currentText !== expectedText, evaluated only when expectedText is supplied
ExpectedTextMismatch(d, from, to, expectedText) ==
    /\ expectedText.t # "undefined"
    /\ ~(expectedText.t = "string" /\ SliceString(d, from, to) = expectedText.s)

\* variant: no catch around the dispatch
UnguardedDispatch(d, changes, hostThrows, compared) ==
    LET r == Dispatch(d, changes, hostThrows)
    IN [ret |-> ~r.threw, doc |-> r.doc, dispatched |-> TRUE,
        compared |-> compared, threw |-> r.threw]

\* try { view.dispatch(...); return true } catch { return false }
GuardedDispatch(d, changes, hostThrows, compared) ==
    LET r == Dispatch(d, changes, hostThrows)
    IN [ret |-> ~r.threw, doc |-> r.doc, dispatched |-> TRUE,
        compared |-> compared, threw |-> FALSE]

\* variant: the new text is inserted at from and nothing is removed
ReplaceRangeInsertOnly(d, newText, from, to, expectedText, hostThrows) ==
    IF ~ReplaceRangeInputOk(newText, from, to)
    THEN [ret |-> FALSE, doc |-> d, dispatched |-> FALSE, compared |-> FALSE, threw |-> FALSE]
    ELSE IF ExpectedTextMismatch(d, from.n, to.n, expectedText)
    THEN [ret |-> FALSE, doc |-> d, dispatched |-> FALSE, compared |-> TRUE, threw |-> FALSE]
    ELSE GuardedDispatch(d, <<[from |-> from.n, to |-> from.n, insert |-> newText.s]>>,
                         hostThrows, expectedText.t # "undefined")

ReplaceRange(d, newText, from, to, expectedText, hostThrows) ==
    IF ~ReplaceRangeInputOk(newText, from, to)
    THEN [ret |-> FALSE, doc |-> d, dispatched |-> FALSE, compared |-> FALSE, threw |-> FALSE]
    ELSE IF ExpectedTextMismatch(d, from.n, to.n, expectedText)
    THEN [ret |-> FALSE, doc |-> d, dispatched |-> FALSE, compared |-> TRUE, threw |-> FALSE]
    ELSE GuardedDispatch(d, <<[from |-> from.n, to |-> to.n, insert |-> newText.s]>>,
                         hostThrows, expectedText.t # "undefined")

(***************************************************************************)
(* contextUtils-batchReplace                                               *)
(***************************************************************************)
\* variant: validation stops after the first entry
BatchMismatchFirstOnly(d, replacements) ==
    /\ replacements # <<>>
    /\ ExpectedTextMismatch(d, replacements[1].from, replacements[1].to,
                            replacements[1].expectedText)

\* the validation loop: some entry that supplies expectedText does not match
BatchMismatch(d, replacements) ==
    \E i \in 1..Len(replacements) :
        ExpectedTextMismatch(d, replacements[i].from, replacements[i].to,
                             replacements[i].expectedText)

\* replacements.map(r => ({from, to, insert: r.text}))
BatchChanges(replacements) ==
    [i \in 1..Len(replacements) |->
        [from |-> replacements[i].from, to |-> replacements[i].to,
         insert |-> replacements[i].text]]

BatchReplace(d, replacements, hostThrows) ==
    IF BatchMismatch(d, replacements)
    THEN [ret |-> FALSE, doc |-> d, dispatched |-> FALSE, compared |-> TRUE, threw |-> FALSE]
    ELSE GuardedDispatch(d, BatchChanges(replacements), hostThrows,
                         \E i \in 1..Len(replacements) :
                             replacements[i].expectedText.t # "undefined")

\* The command called with entries that do not have the declared type: the
\* handler checks no type, so from, to and text reach sliceString and the
\* change set as the JavaScript values they are (here: from a number or
\* Infinity; to a number, Infinity or absent; text a string or absent).
\* sliceString(from, to) reads an absent end as the document end and clips an
\* infinite position to it.
SlicePosition(d, x) == IF IsNumber(x) /\ IsFinite(x) THEN x.n ELSE Len(d)

\* the validation loop on such entries
UntypedBatchMismatch(d, entries) ==
    \E i \in 1..Len(entries) :
        ExpectedTextMismatch(d, SlicePosition(d, entries[i].from),
                             SlicePosition(d, entries[i].to), entries[i].expectedText)

\* the change the host reads from {from, to, insert}: to defaults to from, an
\* absent insert is the empty text; an infinite position lies past the end of
\* every document
UntypedBatchChanges(d, entries) ==
    LET Position(x) == IF IsNumber(x) /\ IsFinite(x) THEN x.n ELSE Len(d) + 1
    IN [i \in 1..Len(entries) |->
           [from |-> Position(entries[i].from),
            to |-> IF entries[i].to = JsUndefined THEN Position(entries[i].from)
                   ELSE Position(entries[i].to),
            insert |-> IF entries[i].text.t = "string" THEN entries[i].text.s ELSE <<>>]]

BatchReplaceUntyped(d, entries, hostThrows) ==
    IF UntypedBatchMismatch(d, entries)
    THEN [ret |-> FALSE, doc |-> d, dispatched |-> FALSE, compared |-> TRUE, threw |-> FALSE]
    ELSE GuardedDispatch(d, UntypedBatchChanges(d, entries), hostThrows,
                         \E i \in 1..Len(entries) : entries[i].expectedText.t # "undefined")

(***************************************************************************)
(* Text helpers used by the parsers.                                       *)
(***************************************************************************)
\* the backtick character (the grave accent cannot be written in a string here)
BT == "bt"
NL == "\n"
WhitespaceChars == {" ", "\t", NL, "\r"}
HexChars == {"0", "1", "2", "3", "4", "5", "6", "7", "8", "9",
             "a", "b", "c", "d", "e", "f", "A", "B", "C", "D", "E", "F"}
UpperChars == <<"A", "B", "C", "D", "E", "F", "G", "H", "I", "J", "K", "L", "M",
                "N", "O", "P", "Q", "R", "S", "T", "U", "V", "W", "X", "Y", "Z">>
LowerChars == <<"a", "b", "c", "d", "e", "f", "g", "h", "i", "j", "k", "l", "m",
                "n", "o", "p", "q", "r", "s", "t", "u", "v", "w", "x", "y", "z">>

\* String.prototype.toLowerCase, one character
LowerChar(c) ==
    IF \E i \in 1..26 : UpperChars[i] = c
    THEN LowerChars[CHOOSE i \in 1..26 : UpperChars[i] = c]
    ELSE c

ToLowerCase(s) == [i \in 1..Len(s) |-> LowerChar(s[i])]

\* s has the literal lit at 0-based offset p
HasAt(s, p, lit) ==
    /\ p >= 0
    /\ p + Len(lit) <= Len(s)
    /\ \A k \in 1..Len(lit) : s[p + k] = lit[k]

\* the same, ignoring letter case (regex flag i)
HasAtIgnoreCase(s, p, lit) ==
    /\ p >= 0
    /\ p + Len(lit) <= Len(s)
    /\ \A k \in 1..Len(lit) : LowerChar(s[p + k]) = LowerChar(lit[k])

\* String.prototype.indexOf(c); -1 when absent
IndexOfChar(s, c) ==
    IF \E i \in 1..Len(s) : s[i] = c
    THEN (CHOOSE i \in 1..Len(s) : s[i] = c /\ \A j \in 1..(i - 1) : s[j] # c) - 1
    ELSE -1

\* smallest member of a non-empty set of integers
SetMin(S) == CHOOSE x \in S : \A y \in S : x <= y
SetMax(S) == CHOOSE x \in S : \A y \in S : x >= y

(***************************************************************************)
(* Lines of a document (Text.lineAt, Text.iterLines).                      *)
(***************************************************************************)
\* offset of the first character of the line holding offset pos
LineFrom(d, pos) ==
    LET nl == {j \in 1..Len(d) : d[j] = NL /\ j <= pos}
    IN IF nl = {} THEN 0 ELSE SetMax(nl)

\* offset just past the last character of the line holding offset pos
LineTo(d, pos) ==
    LET nl == {j \in 1..Len(d) : d[j] = NL /\ j > pos}
    IN IF nl = {} THEN Len(d) ELSE SetMin(nl) - 1

LineText(d, pos) == SubSeq(d, LineFrom(d, pos) + 1, LineTo(d, pos))

\* offsets at which the lines of d start, in document order
LineStarts(d) == {0} \cup {j \in 1..Len(d) : d[j] = NL}

(***************************************************************************)
(* parsingUtils: classifyUrl, parseInlineCode, parseImageTag               *)
(***************************************************************************)
NoResult == [contextType |-> "none"]

\* /^:\/[a-f0-9]{32}(#[^\s]*)?$/i
IsJoplinResourceUrl(url) ==
    /\ Len(url) >= 34
    /\ HasAt(url, 0, <<":", "/">>)
    /\ \A k \in 3..34 : url[k] \in HexChars
    /\ \/ Len(url) = 34
       \/ /\ url[35] = "#"
          /\ \A k \in 36..Len(url) : url[k] \notin WhitespaceChars

\* /^mailto:/i
IsEmailUrl(url) == HasAtIgnoreCase(url, 0, <<"m", "a", "i", "l", "t", "o", ":">>)

\* /^https?:\/\//
IsExternalUrl(url) ==
    \/ HasAt(url, 0, <<"h", "t", "t", "p", ":", "/", "/">>)
    \/ HasAt(url, 0, <<"h", "t", "t", "p", "s", ":", "/", "/">>)

IsAnchorUrlUnanchored(url) ==
    \E p \in 1..(Len(url) - 1) :
       /\ url[p] = "#"
       /\ \A k \in (p + 1)..Len(url) : url[k] \notin WhitespaceChars

\* /^#[^\s]+$/
IsAnchorUrl(url) ==
    /\ Len(url) >= 2
    /\ url[1] = "#"
    /\ \A k \in 2..Len(url) : url[k] \notin WhitespaceChars

\* the LinkType of a URL, "none" when no rule recognises it
ClassifyUrl(url) ==
    IF IsJoplinResourceUrl(url) THEN "joplin-resource"
    ELSE IF IsEmailUrl(url) THEN "email"
    ELSE IF IsExternalUrl(url) THEN "external-url"
    ELSE IF IsAnchorUrl(url) THEN "internal-anchor"
    ELSE "none"

\* the inline-code pattern: a backtick, one or more characters of any kind
\* (flag s), a backtick at the very end
ParseInlineCodeMatches(codeText) ==
    /\ Len(codeText) >= 3
    /\ codeText[1] = BT
    /\ codeText[Len(codeText)] = BT

ParseInlineCode(codeText) == SubSeq(codeText, 2, Len(codeText) - 1)

\* offsets p at which the src attribute pattern (whitespace, src=, a quote,
\* one or more non-quote characters, a quote; flag i) matches htmlText
SrcAttrStarts(htmlText) ==
    {p \in 0..(Len(htmlText) - 1) :
        /\ htmlText[p + 1] \in WhitespaceChars
        /\ HasAtIgnoreCase(htmlText, p + 1, <<"s", "r", "c", "=">>)
        /\ p + 6 <= Len(htmlText)
        /\ htmlText[p + 6] \in {"\"", "'"}
        /\ \E q \in (p + 8)..Len(htmlText) :
              /\ htmlText[q] \in {"\"", "'"}
              /\ \A k \in (p + 7)..(q - 1) : htmlText[k] \notin {"\"", "'"}}

\* the LinkType of the src of an <img> tag and the src itself
ParseImageTag(htmlText) ==
    IF ~(\E p \in 0..(Len(htmlText) - 1) :
            /\ HasAtIgnoreCase(htmlText, p, <<"<", "i", "m", "g">>)
            /\ p + 5 <= Len(htmlText)
            /\ htmlText[p + 5] \in WhitespaceChars)
    THEN [type |-> "none", url |-> <<>>]
    ELSE IF SrcAttrStarts(htmlText) = {}
    THEN [type |-> "none", url |-> <<>>]
    ELSE LET p == SetMin(SrcAttrStarts(htmlText))
             q == SetMin({k \in (p + 8)..Len(htmlText) : htmlText[k] \in {"\"", "'"}})
             url == SubSeq(htmlText, p + 7, q - 1)
         IN [type |-> ClassifyUrl(url), url |-> url]

(***************************************************************************)
(* The syntax tree the host parser supplies: the nodes in pre-order, each  *)
(* with its name, its span and the index of its parent (0 for the top).    *)
(***************************************************************************)
Node(name, from, to, parent) == [name |-> name, from |-> from, to |-> to, parent |-> parent]

NodeText(d, n) == SliceString(d, n.from, n.to)

\* the direct children of node i, in document order (cursor.firstChild /
\* cursor.nextSibling)
ChildrenOf(tr, i) == {j \in 1..Len(tr) : tr[j].parent = i}

\* tree.iterate({from, to, enter}): enter is called on node i when the node
\* touches [from, to] and every ancestor was entered and did not return
\* false; stops holds the nodes on which enter returns false.  Returning
\* false skips the children of that node only, the walk goes on with its
\* siblings.
RECURSIVE Entered(_, _, _, _, _)
Entered(tr, from, to, stops, i) ==
    /\ tr[i].from <= to
    /\ tr[i].to >= from
    /\ \/ tr[i].parent = 0
       \/ /\ tr[i].parent \notin stops
          /\ Entered(tr, from, to, stops, tr[i].parent)

EnteredNodes(tr, from, to, stops) ==
    {i \in 1..Len(tr) : Entered(tr, from, to, stops, i)}

\* extractUrl: the first URL child of a Link or Image node, 0 when none
ExtractUrl(tr, i) ==
    LET urls == {j \in ChildrenOf(tr, i) : tr[j].name = "URL"}
    IN IF urls = {} THEN 0 ELSE SetMin(urls)

\* extractReferenceLabel: the first LinkLabel child, 0 when none
ExtractReferenceLabel(tr, i) ==
    LET labels == {j \in ChildrenOf(tr, i) : tr[j].name = "LinkLabel"}
    IN IF labels = {} THEN 0 ELSE SetMin(labels)

\* the label and URL a LinkReference node defines: the last LinkLabel child
\* and the last URL child (each assignment in the loop overwrites)
DefLabel(tr, i) ==
    LET labels == {j \in ChildrenOf(tr, i) : tr[j].name = "LinkLabel"}
    IN IF labels = {} THEN 0 ELSE SetMax(labels)

DefUrl(tr, i) ==
    LET urls == {j \in ChildrenOf(tr, i) : tr[j].name = "URL"}
    IN IF urls = {} THEN 0 ELSE SetMax(urls)

\* the LinkReference nodes whose label equals the requested one ignoring case
MatchingDefinitions(d, tr, label) ==
    {i \in 1..Len(tr) :
        /\ tr[i].name = "LinkReference"
        /\ DefLabel(tr, i) # 0
        /\ DefUrl(tr, i) # 0
        /\ ToLowerCase(NodeText(d, tr[DefLabel(tr, i)])) = ToLowerCase(label)}

FindReferenceDefinitionLastWins(d, tr, label) ==
    IF MatchingDefinitions(d, tr, label) = {} THEN 0
    ELSE DefUrl(tr, SetMax(MatchingDefinitions(d, tr, label)))

\* findReferenceDefinition: the URL node of the first matching definition in
\* document order, 0 when none matches (ensureSyntaxTree hands over the tree
\* of the whole document)
FindReferenceDefinition(d, tr, label) ==
    IF MatchingDefinitions(d, tr, label) = {} THEN 0
    ELSE DefUrl(tr, SetMin(MatchingDefinitions(d, tr, label)))

(***************************************************************************)
(* parseCodeBlock                                                          *)
(***************************************************************************)
RECURSIVE ConcatNodeTexts(_, _, _)
ConcatNodeTexts(d, tr, S) ==
    IF S = {} THEN <<>>
    ELSE NodeText(d, tr[SetMin(S)]) \o ConcatNodeTexts(d, tr, S \ {SetMin(S)})

\* the fallback pattern: three fence marks at a line start, the rest of the
\* line, a newline, the shortest payload followed by three fence marks and
\* only whitespace up to a line end.  A match is <<start of payload, end of
\* payload>>; the engine reports the leftmost opening and the nearest close.
FenceMatches(text, mark) ==
    {m \in (0..Len(text)) \X (0..Len(text)) :
        \E s \in 0..Len(text) :
            /\ s = 0 \/ text[s] = NL
            /\ HasAt(text, s, <<mark, mark, mark>>)
            /\ m[1] > s + 3
            /\ text[m[1]] = NL
            /\ \A k \in (s + 4)..(m[1] - 1) : text[k] # NL
            /\ m[2] >= m[1]
            /\ HasAt(text, m[2], <<mark, mark, mark>>)
            /\ \E e \in (m[2] + 3)..Len(text) :
                  /\ \A k \in (m[2] + 4)..e : text[k] \in WhitespaceChars
                  /\ e = Len(text) \/ text[e + 1] = NL}

FenceFirstMatch(text, mark) ==
    CHOOSE m \in FenceMatches(text, mark) :
        \A o \in FenceMatches(text, mark) :
            m[1] < o[1] \/ (m[1] = o[1] /\ m[2] <= o[2])

\* parseCodeBlock: matched is FALSE when the function returns null
ParseCodeBlock(d, tr, i) ==
    LET codeTextNodes == {j \in ChildrenOf(tr, i) : tr[j].name = "CodeText"}
        codeText == NodeText(d, tr[i])
    IN IF codeTextNodes # {}
       THEN [matched |-> TRUE, code |-> ConcatNodeTexts(d, tr, codeTextNodes)]
       ELSE IF FenceMatches(codeText, BT) # {}
       THEN [matched |-> TRUE,
             code |-> SubSeq(codeText, FenceFirstMatch(codeText, BT)[1] + 1,
                             FenceFirstMatch(codeText, BT)[2])]
       ELSE IF FenceMatches(codeText, "~") # {}
       THEN [matched |-> TRUE,
             code |-> SubSeq(codeText, FenceFirstMatch(codeText, "~")[1] + 1,
                             FenceFirstMatch(codeText, "~")[2])]
       ELSE [matched |-> FALSE, code |-> <<>>]

(***************************************************************************)
(* findFootnoteDefinition                                                  *)
(***************************************************************************)
\* the fence test of the line that starts at offset ls: three or more
\* backticks or tildes at the line start
IsFenceLine(d, ls) ==
    \/ HasAt(d, ls, <<BT, BT, BT>>)
    \/ HasAt(d, ls, <<"~", "~", "~">>)

\* the inFencedCode flag when the line starting at ls is tested: it has been
\* toggled once for every fence line up to and including this one
InFencedCode(d, ls) ==
    Cardinality({f \in LineStarts(d) : f <= ls /\ IsFenceLine(d, f)}) % 2 = 1

\* the definition pattern on the line starting at ls: optional whitespace,
\* then [^label]: compared ignoring case
IsFootnoteDefinitionLine(d, ls, label) ==
    LET line == LineText(d, ls)
    IN \E k \in 0..Len(line) :
          /\ \A j \in 1..k : line[j] \in WhitespaceChars
          /\ HasAtIgnoreCase(line, k, <<"[", "^">> \o label \o <<"]", ":">>)

FootnoteDefinitionLinesAnywhere(d, label) ==
    {ls \in LineStarts(d) : IsFootnoteDefinitionLine(d, ls, label)}

FootnoteDefinitionLines(d, label) ==
    {ls \in LineStarts(d) : ~InFencedCode(d, ls) /\ IsFootnoteDefinitionLine(d, ls, label)}

\* lineStart + line.indexOf('[') of the first definition line outside fenced
\* code; -1 stands for null
FindFootnoteDefinition(d, label) ==
    IF FootnoteDefinitionLines(d, label) = {} THEN -1
    ELSE LET ls == SetMin(FootnoteDefinitionLines(d, label))
         IN ls + IndexOfChar(LineText(d, ls), "[")

(***************************************************************************)
(* detectPrimaryContext                                                    *)
(***************************************************************************)
CodeContext(code, from, to) ==
    [contextType |-> "code", code |-> code, from |-> from, to |-> to]

\* markdownLinkFrom / markdownLinkTo are -1 when the field is absent
LinkContext(url, type, from, to, mdFrom, mdTo, isRef) ==
    [contextType |-> "link", url |-> url, type |-> type, from |-> from, to |-> to,
     markdownLinkFrom |-> mdFrom, markdownLinkTo |-> mdTo, isReferenceLink |-> isRef]

\* label.replace(/\[\]$/, '')
StripEmptyBrackets(label) ==
    IF Len(label) >= 2 /\ HasAt(label, Len(label) - 2, <<"[", "]">>)
    THEN SubSeq(label, 1, Len(label) - 2)
    ELSE label

\* urlText.replace(/^<|>$/g, '')
StripAngleBrackets(urlText) ==
    LET a == IF Len(urlText) >= 1 /\ urlText[1] = "<" THEN 2 ELSE 1
        b == IF Len(urlText) >= a /\ urlText[Len(urlText)] = ">"
             THEN Len(urlText) - 1 ELSE Len(urlText)
    IN SubSeq(urlText, a, b)

\* the reference-link path of the Link branch
ReferenceLinkContext(d, tr, i) ==
    LET l == ExtractReferenceLabel(tr, i)
        own == IF l = 0 THEN <<>> ELSE NodeText(d, tr[l])
        label == IF own = <<>> \/ own = <<"[", "]">>
                 THEN StripEmptyBrackets(NodeText(d, tr[i]))
                 ELSE own
        ref == IF label = <<>> THEN 0 ELSE FindReferenceDefinition(d, tr, label)
        refUrl == IF ref = 0 THEN <<>> ELSE NodeText(d, tr[ref])
    IN IF refUrl # <<>> /\ ClassifyUrl(refUrl) # "none"
       THEN LinkContext(refUrl, ClassifyUrl(refUrl), tr[i].from, tr[i].to, -1, -1, TRUE)
       ELSE NoResult

\* what the enter callback of detectPrimaryContext assigns to context on node
\* i; NoResult when the node is not classified (the callback then returns
\* undefined and the walk descends into the node)
ClassifyNode(d, tr, i) ==
    LET n == tr[i]
        text == NodeText(d, n)
        u == ExtractUrl(tr, i)
        url == IF u = 0 THEN <<>> ELSE NodeText(d, tr[u])
    IN IF n.name \in {"InlineCode", "CodeText"}
       THEN IF ParseInlineCodeMatches(text)
            THEN CodeContext(ParseInlineCode(text), n.from, n.to)
            ELSE NoResult
       ELSE IF n.name \in {"FencedCode", "CodeBlock"}
       THEN IF ParseCodeBlock(d, tr, i).matched
            THEN CodeContext(ParseCodeBlock(d, tr, i).code, n.from, n.to)
            ELSE NoResult
       ELSE IF n.name = "Link"
       THEN IF u # 0 /\ ClassifyUrl(url) # "none"
            THEN LinkContext(url, ClassifyUrl(url), tr[u].from, tr[u].to, n.from, n.to, FALSE)
            ELSE ReferenceLinkContext(d, tr, i)
       ELSE IF n.name = "Image"
       THEN IF u # 0 /\ ClassifyUrl(url) # "none"
            THEN LinkContext(url, ClassifyUrl(url), n.from, n.to, -1, -1, FALSE)
            ELSE NoResult
       ELSE IF n.name \in {"URL", "Autolink"}
       THEN IF ClassifyUrl(StripAngleBrackets(text)) # "none"
            THEN LinkContext(StripAngleBrackets(text), ClassifyUrl(StripAngleBrackets(text)),
                             n.from, n.to, -1, -1, FALSE)
            ELSE NoResult
       ELSE IF n.name \in {"HTMLTag", "HTMLBlock"}
       THEN IF ParseImageTag(text).type # "none"
            THEN LinkContext(ParseImageTag(text).url, ParseImageTag(text).type,
                             n.from, n.to, -1, -1, FALSE)
            ELSE NoResult
       ELSE NoResult

\* the nodes on which the callback sets context and returns false
ClassifiedNodes(d, tr) == {i \in 1..Len(tr) : ClassifyNode(d, tr, i) # NoResult}

\* the tree walk of detectPrimaryContext: context holds what the last
\* classified node that was entered assigned
TreeContext(d, tr, pos) ==
    LET hit == EnteredNodes(tr, pos, pos, ClassifiedNodes(d, tr)) \cap ClassifiedNodes(d, tr)
    IN IF hit = {} THEN NoResult ELSE ClassifyNode(d, tr, SetMax(hit))

\* offset of the first footnote reference [^label] of lineText that starts
\* at or after offset i; -1 when there is none
NextFootnoteRef(lineText, i) ==
    LET starts == {p \in i..(Len(lineText) - 1) :
                      /\ HasAt(lineText, p, <<"[", "^">>)
                      /\ p + 3 <= Len(lineText)
                      /\ lineText[p + 3] # "]"
                      /\ \E q \in (p + 4)..Len(lineText) : lineText[q] = "]"}
    IN IF starts = {} THEN -1 ELSE SetMin(starts)

\* offset just past the closing bracket of the reference that starts at p
FootnoteRefEnd(lineText, p) ==
    SetMin({q \in (p + 4)..Len(lineText) : lineText[q] = "]"})

\* the while loop over footnoteRegex.exec: the first reference that holds the
\* cursor (both ends inclusive) and has a definition
RECURSIVE FootnoteScan(_, _, _, _)
FootnoteScan(d, lineFrom, relativePos, i) ==
    LET lineText == LineText(d, lineFrom)
        start == NextFootnoteRef(lineText, i)
    IN IF start = -1 THEN NoResult
       ELSE LET end == FootnoteRefEnd(lineText, start)
                label == SubSeq(lineText, start + 3, end - 1)
                targetPos == FindFootnoteDefinition(d, label)
            IN IF relativePos >= start /\ relativePos <= end /\ targetPos # -1
               THEN [contextType |-> "footnote", label |-> label, targetPos |-> targetPos,
                     from |-> lineFrom + start, to |-> lineFrom + end]
               ELSE FootnoteScan(d, lineFrom, relativePos, end)

\* variant: the footnote scan runs first, the tree walk only when it finds
\* nothing
DetectPrimaryContextFootnoteFirst(d, tr, pos) ==
    IF FootnoteScan(d, LineFrom(d, pos), pos - LineFrom(d, pos), 0) # NoResult
    THEN FootnoteScan(d, LineFrom(d, pos), pos - LineFrom(d, pos), 0)
    ELSE TreeContext(d, tr, pos)

DetectPrimaryContext(d, tr, pos) ==
    IF TreeContext(d, tr, pos) # NoResult
    THEN TreeContext(d, tr, pos)
    ELSE FootnoteScan(d, LineFrom(d, pos), pos - LineFrom(d, pos), 0)

(***************************************************************************)
(* detectCheckboxContext, detectTasksInSelection, detectLinksInSelection   *)
(***************************************************************************)
\* offset of the box character when lineText matches the checkbox pattern:
\* optional whitespace, one of - * +, whitespace, an opening bracket, x or a
\* space, a closing bracket; -1 when the line does not match
CheckboxMatch(lineText) ==
    LET at == {k \in 0..Len(lineText) :
                  /\ \A j \in 1..k : lineText[j] \in WhitespaceChars
                  /\ k + 1 <= Len(lineText)
                  /\ lineText[k + 1] \in {"-", "*", "+"}
                  /\ \E w \in 1..Len(lineText) :
                        /\ \A j \in (k + 2)..(k + 1 + w) :
                              j <= Len(lineText) /\ lineText[j] \in WhitespaceChars
                        /\ HasAt(lineText, k + 1 + w, <<"[">>)
                        /\ k + 1 + w + 3 <= Len(lineText)
                        /\ lineText[k + 1 + w + 2] \in {"x", " "}
                        /\ lineText[k + 1 + w + 3] = "]"}
    IN IF at = {} THEN -1
       ELSE LET k == SetMin(at)
                w == SetMin({v \in 1..Len(lineText) :
                                /\ \A j \in (k + 2)..(k + 1 + v) :
                                      j <= Len(lineText) /\ lineText[j] \in WhitespaceChars
                                /\ HasAt(lineText, k + 1 + v, <<"[">>)})
            IN k + 1 + w + 1

CheckboxContext(d, lineFrom) ==
    LET lineText == LineText(d, lineFrom)
    IN [contextType |-> "checkbox",
        checked |-> lineText[CheckboxMatch(lineText) + 1] = "x",
        lineText |-> lineText, from |-> lineFrom, to |-> LineTo(d, lineFrom)]

\* variant: the line pattern alone decides, the tree is not consulted
DetectCheckboxContextUngated(d, tr, pos) ==
    IF CheckboxMatch(LineText(d, pos)) = -1 THEN NoResult
    ELSE CheckboxContext(d, LineFrom(d, pos))

\* detectCheckboxContext: the walk at pos must enter a Task node (on which
\* the callback returns false), then the line must match the pattern
DetectCheckboxContext(d, tr, pos) ==
    LET tasks == {i \in 1..Len(tr) : tr[i].name = "Task"}
    IN IF EnteredNodes(tr, pos, pos, tasks) \cap tasks = {} THEN NoResult
       ELSE IF CheckboxMatch(LineText(d, pos)) = -1 THEN NoResult
       ELSE CheckboxContext(d, LineFrom(d, pos))

TaskInfoThroughLineBreak(d, lineFrom) ==
    LET lineText == LineText(d, lineFrom)
    IN [lineText |-> lineText,
        checked |-> lineText[CheckboxMatch(lineText) + 1] = "x",
        from |-> lineFrom, to |-> LineTo(d, lineFrom) + 1]

TaskInfo(d, lineFrom) ==
    LET lineText == LineText(d, lineFrom)
    IN [lineText |-> lineText,
        checked |-> lineText[CheckboxMatch(lineText) + 1] = "x",
        from |-> lineFrom, to |-> LineTo(d, lineFrom)]

\* the enter callback of detectTasksInSelection run over the nodes it is
\* called on, in pre-order; tasks is the list collected so far.  A Task node
\* is skipped when the last collected task lies on the same line.
RECURSIVE CollectTasks(_, _, _, _)
CollectTasks(d, tr, S, tasks) ==
    IF S = {} THEN tasks
    ELSE LET i == SetMin(S)
             lineFrom == LineFrom(d, tr[i].from)
         IN IF tr[i].name # "Task" THEN CollectTasks(d, tr, S \ {i}, tasks)
            ELSE IF Len(tasks) > 0 /\ LineFrom(d, tasks[Len(tasks)].from) = lineFrom
            THEN CollectTasks(d, tr, S \ {i}, tasks)
            ELSE IF CheckboxMatch(LineText(d, lineFrom)) = -1
            THEN CollectTasks(d, tr, S \ {i}, tasks)
            ELSE CollectTasks(d, tr, S \ {i}, Append(tasks, TaskInfo(d, lineFrom)))

\* variant: every Task node whose line matches contributes a TaskInfo
RECURSIVE CollectEveryTask(_, _, _, _)
CollectEveryTask(d, tr, S, tasks) ==
    IF S = {} THEN tasks
    ELSE LET i == SetMin(S)
             lineFrom == LineFrom(d, tr[i].from)
         IN IF tr[i].name # "Task" \/ CheckboxMatch(LineText(d, lineFrom)) = -1
            THEN CollectEveryTask(d, tr, S \ {i}, tasks)
            ELSE CollectEveryTask(d, tr, S \ {i}, Append(tasks, TaskInfo(d, lineFrom)))

DetectTasksInSelectionNoLineCheck(d, tr, from, to) ==
    LET tasks == CollectEveryTask(d, tr, EnteredNodes(tr, from, to, {}), <<>>)
    IN IF Len(tasks) = 0 THEN NoResult
       ELSE [contextType |-> "taskSelection", tasks |-> tasks,
             checkedCount |-> Cardinality({k \in 1..Len(tasks) : tasks[k].checked}),
             uncheckedCount |-> Cardinality({k \in 1..Len(tasks) : ~tasks[k].checked}),
             from |-> from, to |-> to]

\* variant: the counters are advanced before the same-line check, once per
\* Task node whose line matches
DetectTasksInSelectionCountsNodes(d, tr, from, to) ==
    LET tasks == CollectTasks(d, tr, EnteredNodes(tr, from, to, {}), <<>>)
        every == CollectEveryTask(d, tr, EnteredNodes(tr, from, to, {}), <<>>)
    IN IF Len(tasks) = 0 THEN NoResult
       ELSE [contextType |-> "taskSelection", tasks |-> tasks,
             checkedCount |-> Cardinality({k \in 1..Len(every) : every[k].checked}),
             uncheckedCount |-> Cardinality({k \in 1..Len(every) : ~every[k].checked}),
             from |-> from, to |-> to]

DetectTasksInSelection(d, tr, from, to) ==
    LET tasks == CollectTasks(d, tr, EnteredNodes(tr, from, to, {}), <<>>)
    IN IF Len(tasks) = 0 THEN NoResult
       ELSE [contextType |-> "taskSelection", tasks |-> tasks,
             checkedCount |-> Cardinality({k \in 1..Len(tasks) : tasks[k].checked}),
             uncheckedCount |-> Cardinality({k \in 1..Len(tasks) : ~tasks[k].checked}),
             from |-> from, to |-> to]

LinkInfo(url, type, from, to, mdFrom, mdTo) ==
    [url |-> url, type |-> type, from |-> from, to |-> to,
     markdownLinkFrom |-> mdFrom, markdownLinkTo |-> mdTo]

\* the LinkInfo the callback of detectLinksInSelection builds on node i, or
\* NoResult when the node contributes none
SelectionLink(d, tr, i) ==
    LET n == tr[i]
        u == ExtractUrl(tr, i)
        url == IF u = 0 THEN <<>> ELSE NodeText(d, tr[u])
        bare == StripAngleBrackets(NodeText(d, n))
    IN IF n.name = "Link"
       THEN IF u # 0 /\ ClassifyUrl(url) = "external-url"
            THEN LinkInfo(url, "external-url", tr[u].from, tr[u].to, n.from, n.to)
            ELSE NoResult
       ELSE IF n.name \in {"URL", "Autolink"}
       THEN IF ClassifyUrl(bare) = "external-url"
            THEN LinkInfo(bare, "external-url", n.from, n.to, -1, -1)
            ELSE NoResult
       ELSE NoResult

\* the callback run over the entered nodes in pre-order; a link whose span
\* key from-to was seen before is dropped
RECURSIVE CollectLinks(_, _, _, _)
CollectLinks(d, tr, S, links) ==
    IF S = {} THEN links
    ELSE LET i == SetMin(S)
             li == SelectionLink(d, tr, i)
         IN IF li = NoResult THEN CollectLinks(d, tr, S \ {i}, links)
            ELSE IF \E k \in 1..Len(links) : links[k].from = li.from /\ links[k].to = li.to
            THEN CollectLinks(d, tr, S \ {i}, links)
            ELSE CollectLinks(d, tr, S \ {i}, Append(links, li))

DetectLinksInSelection(d, tr, from, to) ==
    LET links == CollectLinks(d, tr, EnteredNodes(tr, from, to, {}), <<>>)
    IN IF Len(links) = 0 THEN NoResult
       ELSE [contextType |-> "linkSelection", links |-> links, from |-> from, to |-> to]

(***************************************************************************)
(* detectContextAtPosition                                                 *)
(***************************************************************************)
SelFrom(s) == Min(s.anchor, s.head)
SelTo(s) == Max(s.anchor, s.head)

\* a list without its NoResult members
Present(ctxs) == SelectSeq(ctxs, LAMBDA c : c # NoResult)

\* variant: the link selection is pushed before the task selection
SelectionContextsLinksFirst(d, tr, s) ==
    Present(<<DetectLinksInSelection(d, tr, SelFrom(s), SelTo(s)),
              DetectTasksInSelection(d, tr, SelFrom(s), SelTo(s))>>)

\* the selection branch: the task selection, then the link selection
SelectionContexts(d, tr, s) ==
    Present(<<DetectTasksInSelection(d, tr, SelFrom(s), SelTo(s)),
              DetectLinksInSelection(d, tr, SelFrom(s), SelTo(s))>>)

\* variant: the checkbox check runs only when no primary context was found
PositionContextsExclusive(d, tr, pos) ==
    IF DetectPrimaryContext(d, tr, pos) # NoResult
    THEN <<DetectPrimaryContext(d, tr, pos)>>
    ELSE Present(<<DetectCheckboxContext(d, tr, pos)>>)

\* the cursor branch: the primary context, then the checkbox context
PositionContexts(d, tr, pos) ==
    Present(<<DetectPrimaryContext(d, tr, pos), DetectCheckboxContext(d, tr, pos)>>)

DetectContextAtPosition(d, tr, s, pos) ==
    IF SelFrom(s) # SelTo(s) /\ SelectionContexts(d, tr, s) # <<>>
    THEN SelectionContexts(d, tr, s)
    ELSE PositionContexts(d, tr, pos)

(***************************************************************************)
(* checkboxUtils: toggleCheckboxInLine                                     *)
(***************************************************************************)
\* String.prototype.replace with a pattern that has no flag g: the first
\* occurrence of pat becomes rep, the text is returned as is when absent
ReplaceFirst(text, pat, rep) ==
    LET at == {p \in 0..Len(text) : HasAt(text, p, pat)}
    IN IF at = {} THEN text
       ELSE SubSeq(text, 1, SetMin(at)) \o rep
            \o SubSeq(text, SetMin(at) + Len(pat) + 1, Len(text))

\* variant: the pattern carries the g flag, every box in the old state is
\* rewritten
ToggleCheckboxInLineGlobal(lineText, toChecked) ==
    LET old == IF toChecked THEN " " ELSE "x"
        new == IF toChecked THEN "x" ELSE " "
    IN [j \in 1..Len(lineText) |->
           IF j >= 2 /\ HasAt(lineText, j - 2, <<"[", old, "]">>) THEN new
           ELSE lineText[j]]

ToggleCheckboxInLine(lineText, toChecked) ==
    IF toChecked
    THEN ReplaceFirst(lineText, <<"[", " ", "]">>, <<"[", "x", "]">>)
    ELSE ReplaceFirst(lineText, <<"[", "x", "]">>, <<"[", " ", "]">>)

(***************************************************************************)
(* The documents the detection and handler specifications explore, each    *)
(* with the tree the GFM markdown parser builds for it.                    *)
(***************************************************************************)

\* the sample documents
Docs ==
     \* a task line that holds inline code
    [TaskCode1 |->
        <<"-", " ", "[", " ", "]", " ", BT, "c", BT>>,
     TaskCode2 |->
        <<"-", " ", "[", "x", "]", " ", BT, "c", BT>>,
     \* a markdown link whose text is inline code
     LinkCode |->
        <<"[", BT, "c", BT, "]", "(", "#", "a", ")">>,
     \* an autolink
     AutoLink |->
        <<"<", "h", "t", "t", "p", ":", "/", "/", "x", ">">>,
     \* two task lines
     TwoTasks1 |->
        <<"-", " ", "[", " ", "]", " ", "a", NL, "-", " ", "[", "x", "]", " ",
        "b">>,
     TwoTasks2 |->
        <<"-", " ", "[", "x", "]", " ", "a", NL, "-", " ", "[", "x", "]", " ",
        "b">>,
     TwoTasks3 |->
        <<"-", " ", "[", " ", "]", " ", "a", NL, "-", " ", "[", " ", "]", " ",
        "b">>,
     TwoTasks4 |->
        <<"-", " ", "[", "x", "]", " ", "a", NL, "-", " ", "[", " ", "]", " ",
        "b">>,
     \* a footnote reference and its definition
     Footnote |->
        <<"x", "[", "^", "1", "]", NL, NL, "[", "^", "1", "]", ":", " ", "n",
        " ", "t">>,
     \* a shortcut reference link and its definition
     RefLink |->
        <<"[", "r", "]", NL, NL, "[", "R", "]", ":", " ", "#", "a">>,
     \* an HTML img tag on a line of its own
     HtmlImg |->
        <<"<", "i", "m", "g", " ", "s", "r", "c", "=", "\"", "#", "a", "\"", ">">>,
     \* task text inside a fenced code block
     FencedTask |->
        <<BT, BT, BT, NL, "-", " ", "[", " ", "]", " ", "a", NL, BT, BT, BT>>,
     \* a markdown image
     Image |->
        <<"!", "[", "a", "]", "(", "#", "b", ")">>,
     \* inline code directly followed by an autolink
     CodeThenLink |->
        <<BT, "a", BT, "<", "h", "t", "t", "p", ":", "/", "/", "x", ">">>,
     \* a task line that holds an autolink
     TaskLink1 |->
        <<"-", " ", "[", " ", "]", " ", "<", "h", "t", "t", "p", ":", "/", "/",
        "x", ">">>,
     TaskLink2 |->
        <<"-", " ", "[", "x", "]", " ", "<", "h", "t", "t", "p", ":", "/", "/",
        "x", ">">>,
     \* a markdown image of an external URL
     ImageExt |->
        <<"!", "[", "a", "]", "(", "h", "t", "t", "p", ":", "/", "/", "x", ")">>,
     \* a shortcut reference link to an external URL and its definition
     RefExt |->
        <<"[", "r", "]", NL, NL, "[", "R", "]", ":", " ", "h", "t", "t", "p",
        ":", "/", "/", "x">>,
     \* a task item whose box holds an upper-case X
     TaskUpper |->
        <<"-", " ", "[", "X", "]", " ", "a">>,
     \* a tree in which a task item node lies inside another one on the same line,
     \* the case the same-line check of detectTasksInSelection is written for
     NestedTask |->
        <<"-", " ", "[", " ", "]", " ", "[", "x", "]", " ", "a">>,
     \* a footnote reference inside inline code, and its definition
     FootnoteInCode |->
        <<BT, "[", "^", "1", "]", BT, NL, NL, "[", "^", "1", "]", ":", " ", "n",
        " ", "t">>,
     \* a footnote reference that has no definition
     FootnoteUndefined |->
        <<"x", "[", "^", "2", "]">>,
     \* a footnote reference whose definition lies inside a fenced code block
     FootnoteFenced |->
        <<"[", "^", "1", "]", NL, BT, BT, BT, NL, "[", "^", "1", "]", ":", " ", "n",
        NL, BT, BT, BT>>,
     \* a footnote reference whose definition line is indented by one space
     FootnoteIndented |->
        <<"[", "^", "1", "]", NL, NL, " ", "[", "^", "1", "]", ":", " ", "n", " ",
        "t">>,
     \* plain text
     Plain |->
        <<"a", "b">>]

\* the documents the title rewrite leaves behind: the link has become
\* [title](url), the title being that of the page or the domain
LinkTitles == {<<"t">>, <<"x">>}
InlineLink(title) ==
    <<"[">> \o title \o <<"]", "(", "h", "t", "t", "p", ":", "/", "/", "x", ")">>
ReferenceDefinitionHead == <<NL, NL, "[", "R", "]", ":", " ">>

\* documents that share a tree: the nested task with either box ticked or
\* not, and the documents above after the title rewrite (TitledRef: the
\* shortcut reference itself rewritten, its definition left in place;
\* RefTitledDef: the URL of the definition rewritten, the destination of the
\* definition being now the whole of [title](url); TwoTitledLinks: an
\* autolink rewritten once for the Autolink node and once for its URL child;
\* TitledImage: the URL of the image rewritten, its destination being now
\* the whole of [title](url))
TreeSharers ==
    [TaskCode |->
        {Docs.TaskCode1, Docs.TaskCode2},
     TwoTasks |->
        {Docs.TwoTasks1, Docs.TwoTasks2, Docs.TwoTasks3, Docs.TwoTasks4},
     TaskLink |->
        {Docs.TaskLink1, Docs.TaskLink2},
     NestedTask |->
        {<<"-", " ", "[", a, "]", " ", "[", b, "]", " ", "a">> : a \in {" ", "x"}, b \in {" ", "x"}},
     TitledLink |->
        {InlineLink(t) : t \in LinkTitles},
     CodeThenTitledLink |->
        {<<BT, "a", BT>> \o InlineLink(t) : t \in LinkTitles},
     TaskTitledLink |->
        {<<"-", " ", "[", box, "]", " ">> \o InlineLink(t) : box \in {" ", "x"}, t \in LinkTitles},
     TitledRef |->
        {InlineLink(t) \o ReferenceDefinitionHead \o <<"h", "t", "t", "p", ":", "/", "/", "x">> :
        t \in LinkTitles},
     RefTitledDef |->
        {<<"[", "r", "]">> \o ReferenceDefinitionHead \o InlineLink(t) : t \in LinkTitles},
     TitledRefTitledDef |->
        {InlineLink(t) \o ReferenceDefinitionHead \o InlineLink(u) : t \in LinkTitles, u \in LinkTitles},
     TwoTitledLinks |->
        {InlineLink(t) \o InlineLink(u) : t \in LinkTitles, u \in LinkTitles},
     CodeThenTwoTitledLinks |->
        {<<BT, "a", BT>> \o InlineLink(t) \o InlineLink(u) : t \in LinkTitles, u \in LinkTitles},
     TaskTwoTitledLinks |->
        {<<"-", " ", "[", box, "]", " ">> \o InlineLink(t) \o InlineLink(u) :
        box \in {" ", "x"}, t \in LinkTitles, u \in LinkTitles},
     TitledImage |->
        {<<"!", "[", "a", "]", "(">> \o InlineLink(t) \o <<")">> : t \in LinkTitles}]

\* the tree the GFM markdown parser builds for each kind of document above
Trees ==
    [TaskCode |->
        <<Node("Document", 0, 9, 0), Node("BulletList", 0, 9, 1),
        Node("ListItem", 0, 9, 2), Node("ListMark", 0, 1, 3),
        Node("Task", 2, 9, 3), Node("TaskMarker", 2, 5, 5),
        Node("InlineCode", 6, 9, 5), Node("CodeMark", 6, 7, 7),
        Node("CodeMark", 8, 9, 7)>>,
     LinkCode |->
        <<Node("Document", 0, 9, 0), Node("Paragraph", 0, 9, 1),
        Node("Link", 0, 9, 2), Node("LinkMark", 0, 1, 3),
        Node("InlineCode", 1, 4, 3), Node("CodeMark", 1, 2, 5),
        Node("CodeMark", 3, 4, 5), Node("LinkMark", 4, 5, 3),
        Node("LinkMark", 5, 6, 3), Node("URL", 6, 8, 3),
        Node("LinkMark", 8, 9, 3)>>,
     AutoLink |->
        <<Node("Document", 0, 10, 0), Node("Paragraph", 0, 10, 1),
        Node("Autolink", 0, 10, 2), Node("LinkMark", 0, 1, 3),
        Node("URL", 1, 9, 3), Node("LinkMark", 9, 10, 3)>>,
     TwoTasks |->
        <<Node("Document", 0, 15, 0), Node("BulletList", 0, 15, 1),
        Node("ListItem", 0, 7, 2), Node("ListMark", 0, 1, 3),
        Node("Task", 2, 7, 3), Node("TaskMarker", 2, 5, 5),
        Node("ListItem", 8, 15, 2), Node("ListMark", 8, 9, 7),
        Node("Task", 10, 15, 7), Node("TaskMarker", 10, 13, 9)>>,
     Footnote |->
        <<Node("Document", 0, 16, 0), Node("Paragraph", 0, 5, 1),
        Node("Link", 1, 5, 2), Node("LinkMark", 1, 2, 3),
        Node("LinkMark", 4, 5, 3), Node("Paragraph", 7, 16, 1),
        Node("Link", 7, 11, 6), Node("LinkMark", 7, 8, 7),
        Node("LinkMark", 10, 11, 7)>>,
     RefLink |->
        <<Node("Document", 0, 12, 0), Node("Paragraph", 0, 3, 1),
        Node("Link", 0, 3, 2), Node("LinkMark", 0, 1, 3),
        Node("LinkMark", 2, 3, 3), Node("LinkReference", 5, 12, 1),
        Node("LinkLabel", 5, 8, 6), Node("LinkMark", 8, 9, 6),
        Node("URL", 10, 12, 6)>>,
     HtmlImg |->
        <<Node("Document", 0, 14, 0), Node("HTMLBlock", 0, 14, 1)>>,
     FencedTask |->
        <<Node("Document", 0, 15, 0), Node("FencedCode", 0, 15, 1),
        Node("CodeMark", 0, 3, 2), Node("CodeText", 4, 11, 2),
        Node("CodeMark", 12, 15, 2)>>,
     Image |->
        <<Node("Document", 0, 8, 0), Node("Paragraph", 0, 8, 1),
        Node("Image", 0, 8, 2), Node("LinkMark", 0, 2, 3),
        Node("LinkMark", 3, 4, 3), Node("LinkMark", 4, 5, 3),
        Node("URL", 5, 7, 3), Node("LinkMark", 7, 8, 3)>>,
     CodeThenLink |->
        <<Node("Document", 0, 13, 0), Node("Paragraph", 0, 13, 1),
        Node("InlineCode", 0, 3, 2), Node("CodeMark", 0, 1, 3),
        Node("CodeMark", 2, 3, 3), Node("Autolink", 3, 13, 2),
        Node("LinkMark", 3, 4, 6), Node("URL", 4, 12, 6),
        Node("LinkMark", 12, 13, 6)>>,
     TaskLink |->
        <<Node("Document", 0, 16, 0), Node("BulletList", 0, 16, 1),
        Node("ListItem", 0, 16, 2), Node("ListMark", 0, 1, 3),
        Node("Task", 2, 16, 3), Node("TaskMarker", 2, 5, 5),
        Node("Autolink", 6, 16, 5), Node("LinkMark", 6, 7, 7),
        Node("URL", 7, 15, 7), Node("LinkMark", 15, 16, 7)>>,
     ImageExt |->
        <<Node("Document", 0, 14, 0), Node("Paragraph", 0, 14, 1),
        Node("Image", 0, 14, 2), Node("LinkMark", 0, 2, 3),
        Node("LinkMark", 3, 4, 3), Node("LinkMark", 4, 5, 3),
        Node("URL", 5, 13, 3), Node("LinkMark", 13, 14, 3)>>,
     RefExt |->
        <<Node("Document", 0, 18, 0), Node("Paragraph", 0, 3, 1),
        Node("Link", 0, 3, 2), Node("LinkMark", 0, 1, 3),
        Node("LinkMark", 2, 3, 3), Node("LinkReference", 5, 18, 1),
        Node("LinkLabel", 5, 8, 6), Node("LinkMark", 8, 9, 6),
        Node("URL", 10, 18, 6)>>,
     TaskUpper |->
        <<Node("Document", 0, 7, 0), Node("BulletList", 0, 7, 1),
        Node("ListItem", 0, 7, 2), Node("ListMark", 0, 1, 3),
        Node("Task", 2, 7, 3), Node("TaskMarker", 2, 5, 5)>>,
     NestedTask |->
        <<Node("Document", 0, 11, 0), Node("BulletList", 0, 11, 1),
        Node("ListItem", 0, 11, 2), Node("ListMark", 0, 1, 3),
        Node("Task", 2, 11, 3), Node("TaskMarker", 2, 5, 5),
        Node("Task", 6, 11, 5), Node("TaskMarker", 6, 9, 7)>>,
     TitledLink |->
        <<Node("Document", 0, 13, 0), Node("Paragraph", 0, 13, 1),
        Node("Link", 0, 13, 2), Node("LinkMark", 0, 1, 3),
        Node("LinkMark", 2, 3, 3), Node("LinkMark", 3, 4, 3),
        Node("URL", 4, 12, 3), Node("LinkMark", 12, 13, 3)>>,
     CodeThenTitledLink |->
        <<Node("Document", 0, 16, 0), Node("Paragraph", 0, 16, 1),
        Node("InlineCode", 0, 3, 2), Node("CodeMark", 0, 1, 3),
        Node("CodeMark", 2, 3, 3), Node("Link", 3, 16, 2),
        Node("LinkMark", 3, 4, 6), Node("LinkMark", 5, 6, 6),
        Node("LinkMark", 6, 7, 6), Node("URL", 7, 15, 6),
        Node("LinkMark", 15, 16, 6)>>,
     TaskTitledLink |->
        <<Node("Document", 0, 19, 0), Node("BulletList", 0, 19, 1),
        Node("ListItem", 0, 19, 2), Node("ListMark", 0, 1, 3),
        Node("Task", 2, 19, 3), Node("TaskMarker", 2, 5, 5),
        Node("Link", 6, 19, 5), Node("LinkMark", 6, 7, 7),
        Node("LinkMark", 8, 9, 7), Node("LinkMark", 9, 10, 7),
        Node("URL", 10, 18, 7), Node("LinkMark", 18, 19, 7)>>,
     TitledRef |->
        <<Node("Document", 0, 28, 0), Node("Paragraph", 0, 13, 1),
        Node("Link", 0, 13, 2), Node("LinkMark", 0, 1, 3),
        Node("LinkMark", 2, 3, 3), Node("LinkMark", 3, 4, 3),
        Node("URL", 4, 12, 3), Node("LinkMark", 12, 13, 3),
        Node("LinkReference", 15, 28, 1), Node("LinkLabel", 15, 18, 9),
        Node("LinkMark", 18, 19, 9), Node("URL", 20, 28, 9)>>,
     RefTitledDef |->
        <<Node("Document", 0, 23, 0), Node("Paragraph", 0, 3, 1),
        Node("Link", 0, 3, 2), Node("LinkMark", 0, 1, 3),
        Node("LinkMark", 2, 3, 3), Node("LinkReference", 5, 23, 1),
        Node("LinkLabel", 5, 8, 6), Node("LinkMark", 8, 9, 6),
        Node("URL", 10, 23, 6)>>,
     TitledRefTitledDef |->
        <<Node("Document", 0, 33, 0), Node("Paragraph", 0, 13, 1),
        Node("Link", 0, 13, 2), Node("LinkMark", 0, 1, 3),
        Node("LinkMark", 2, 3, 3), Node("LinkMark", 3, 4, 3),
        Node("URL", 4, 12, 3), Node("LinkMark", 12, 13, 3),
        Node("LinkReference", 15, 33, 1), Node("LinkLabel", 15, 18, 9),
        Node("LinkMark", 18, 19, 9), Node("URL", 20, 33, 9)>>,
     TwoTitledLinks |->
        <<Node("Document", 0, 26, 0), Node("Paragraph", 0, 26, 1),
        Node("Link", 0, 13, 2), Node("LinkMark", 0, 1, 3),
        Node("LinkMark", 2, 3, 3), Node("LinkMark", 3, 4, 3),
        Node("URL", 4, 12, 3), Node("LinkMark", 12, 13, 3),
        Node("Link", 13, 26, 2), Node("LinkMark", 13, 14, 9),
        Node("LinkMark", 15, 16, 9), Node("LinkMark", 16, 17, 9),
        Node("URL", 17, 25, 9), Node("LinkMark", 25, 26, 9)>>,
     CodeThenTwoTitledLinks |->
        <<Node("Document", 0, 29, 0), Node("Paragraph", 0, 29, 1),
        Node("InlineCode", 0, 3, 2), Node("CodeMark", 0, 1, 3),
        Node("CodeMark", 2, 3, 3), Node("Link", 3, 16, 2),
        Node("LinkMark", 3, 4, 6), Node("LinkMark", 5, 6, 6),
        Node("LinkMark", 6, 7, 6), Node("URL", 7, 15, 6),
        Node("LinkMark", 15, 16, 6), Node("Link", 16, 29, 2),
        Node("LinkMark", 16, 17, 12), Node("LinkMark", 18, 19, 12),
        Node("LinkMark", 19, 20, 12), Node("URL", 20, 28, 12),
        Node("LinkMark", 28, 29, 12)>>,
     TaskTwoTitledLinks |->
        <<Node("Document", 0, 32, 0), Node("BulletList", 0, 32, 1),
        Node("ListItem", 0, 32, 2), Node("ListMark", 0, 1, 3),
        Node("Task", 2, 32, 3), Node("TaskMarker", 2, 5, 5),
        Node("Link", 6, 19, 5), Node("LinkMark", 6, 7, 7),
        Node("LinkMark", 8, 9, 7), Node("LinkMark", 9, 10, 7),
        Node("URL", 10, 18, 7), Node("LinkMark", 18, 19, 7),
        Node("Link", 19, 32, 5), Node("LinkMark", 19, 20, 13),
        Node("LinkMark", 21, 22, 13), Node("LinkMark", 22, 23, 13),
        Node("URL", 23, 31, 13), Node("LinkMark", 31, 32, 13)>>,
     FootnoteInCode |->
        <<Node("Document", 0, 17, 0), Node("Paragraph", 0, 6, 1),
        Node("InlineCode", 0, 6, 2), Node("CodeMark", 0, 1, 3),
        Node("CodeMark", 5, 6, 3), Node("Paragraph", 8, 17, 1),
        Node("Link", 8, 12, 6), Node("LinkMark", 8, 9, 7),
        Node("LinkMark", 11, 12, 7)>>,
     FootnoteUndefined |->
        <<Node("Document", 0, 5, 0), Node("Paragraph", 0, 5, 1),
        Node("Link", 1, 5, 2), Node("LinkMark", 1, 2, 3),
        Node("LinkMark", 4, 5, 3)>>,
     FootnoteFenced |->
        <<Node("Document", 0, 20, 0), Node("Paragraph", 0, 4, 1),
        Node("Link", 0, 4, 2), Node("LinkMark", 0, 1, 3),
        Node("LinkMark", 3, 4, 3), Node("FencedCode", 5, 20, 1),
        Node("CodeMark", 5, 8, 6), Node("CodeText", 9, 16, 6),
        Node("CodeMark", 17, 20, 6)>>,
     FootnoteIndented |->
        <<Node("Document", 0, 16, 0), Node("Paragraph", 0, 4, 1),
        Node("Link", 0, 4, 2), Node("LinkMark", 0, 1, 3),
        Node("LinkMark", 3, 4, 3), Node("Paragraph", 7, 16, 1),
        Node("Link", 7, 11, 6), Node("LinkMark", 7, 8, 7),
        Node("LinkMark", 10, 11, 7)>>,
     TitledImage |->
        <<Node("Document", 0, 19, 0), Node("Paragraph", 0, 19, 1),
        Node("Image", 0, 19, 2), Node("LinkMark", 0, 2, 3),
        Node("LinkMark", 3, 4, 3), Node("LinkMark", 4, 5, 3),
        Node("URL", 5, 18, 3), Node("LinkMark", 18, 19, 3)>>]

FixtureDocs ==
    {Docs.TaskCode1, Docs.TaskCode2, Docs.LinkCode, Docs.AutoLink, Docs.TwoTasks1,
     Docs.TwoTasks2, Docs.TwoTasks3, Docs.TwoTasks4, Docs.Footnote, Docs.RefLink,
     Docs.HtmlImg, Docs.FencedTask, Docs.Image, Docs.CodeThenLink, Docs.TaskLink1,
     Docs.TaskLink2, Docs.ImageExt, Docs.RefExt, Docs.TaskUpper, Docs.NestedTask,
     Docs.FootnoteInCode, Docs.FootnoteUndefined, Docs.FootnoteFenced,
     Docs.FootnoteIndented, Docs.Plain}

\* a document without markup: one paragraph, or nothing for the empty text
PlainTree(d) ==
    IF Len(d) = 0 THEN <<Node("Document", 0, 0, 0)>>
    ELSE <<Node("Document", 0, Len(d), 0), Node("Paragraph", 0, Len(d), 1)>>

\* syntaxTree(view.state) for document d
ParseTree(d) ==
    IF d \in TreeSharers.TaskCode THEN Trees.TaskCode
    ELSE IF d = Docs.LinkCode THEN Trees.LinkCode
    ELSE IF d = Docs.AutoLink THEN Trees.AutoLink
    ELSE IF d \in TreeSharers.TwoTasks THEN Trees.TwoTasks
    ELSE IF d = Docs.Footnote THEN Trees.Footnote
    ELSE IF d = Docs.RefLink THEN Trees.RefLink
    ELSE IF d = Docs.HtmlImg THEN Trees.HtmlImg
    ELSE IF d = Docs.FencedTask THEN Trees.FencedTask
    ELSE IF d = Docs.Image THEN Trees.Image
    ELSE IF d = Docs.CodeThenLink THEN Trees.CodeThenLink
    ELSE IF d \in TreeSharers.TaskLink THEN Trees.TaskLink
    ELSE IF d = Docs.ImageExt THEN Trees.ImageExt
    ELSE IF d = Docs.RefExt THEN Trees.RefExt
    ELSE IF d = Docs.TaskUpper THEN Trees.TaskUpper
    ELSE IF d \in TreeSharers.NestedTask THEN Trees.NestedTask
    ELSE IF d \in TreeSharers.TitledLink THEN Trees.TitledLink
    ELSE IF d \in TreeSharers.CodeThenTitledLink THEN Trees.CodeThenTitledLink
    ELSE IF d \in TreeSharers.TaskTitledLink THEN Trees.TaskTitledLink
    ELSE IF d \in TreeSharers.TitledRef THEN Trees.TitledRef
    ELSE IF d \in TreeSharers.RefTitledDef THEN Trees.RefTitledDef
    ELSE IF d \in TreeSharers.TitledRefTitledDef THEN Trees.TitledRefTitledDef
    ELSE IF d = Docs.FootnoteInCode THEN Trees.FootnoteInCode
    ELSE IF d = Docs.FootnoteUndefined THEN Trees.FootnoteUndefined
    ELSE IF d = Docs.FootnoteFenced THEN Trees.FootnoteFenced
    ELSE IF d = Docs.FootnoteIndented THEN Trees.FootnoteIndented
    ELSE IF d \in TreeSharers.TwoTitledLinks THEN Trees.TwoTitledLinks
    ELSE IF d \in TreeSharers.CodeThenTwoTitledLinks THEN Trees.CodeThenTwoTitledLinks
    ELSE IF d \in TreeSharers.TaskTwoTitledLinks THEN Trees.TaskTwoTitledLinks
    ELSE IF d \in TreeSharers.TitledImage THEN Trees.TitledImage
    ELSE PlainTree(d)

(***************************************************************************)
(* State.                                                                  *)
(*   doc, tree           the editor document and its syntax tree           *)
(*   sel                 the main selection (anchor and head)              *)
(*   lastRightClickPos   the closure variable of the content script        *)
(*   menu                the contexts the open context menu was built from *)
(*                       and the document they were detected in            *)
(*   pending             editor commands sent by handlers, not yet run;    *)
(*                       origin, basis and onSuccess are what the awaiting *)
(*                       handler keeps: which handler it is, the document  *)
(*                       its context was detected in, the toast it shows   *)
(*   last                what the last step did and returned               *)
(***************************************************************************)
\* most commands a handler may have in flight at a time
MaxPending == 1

\* null of lastRightClickPos
NoPos == -1

NoRequest ==
    [cmd |-> "none", newText |-> JsUndefined, from |-> JsUndefined, to |-> JsUndefined,
     expectedText |-> JsUndefined, replacements |-> <<>>,
     origin |-> "none", basis |-> <<>>, onSuccess |-> "none"]

NoMenu == [doc |-> <<>>, contexts |-> <<>>]

ReplaceRangeRequest(newText, from, to, expectedText) ==
    [NoRequest EXCEPT !.cmd = "replaceRange", !.newText = newText, !.from = from,
                      !.to = to, !.expectedText = expectedText]

BatchReplaceRequest(replacements) ==
    [NoRequest EXCEPT !.cmd = "batchReplace", !.replacements = replacements]

LastNone ==
    [op |-> "none", pre |-> <<>>, req |-> NoRequest, ret |-> FALSE, threw |-> FALSE,
     dispatched |-> FALSE, compared |-> FALSE, hostThrows |-> FALSE,
     pos |-> NoPos, contexts |-> <<>>, error |-> "none", toast |-> "none",
     value |-> JsUndefined]

Cursor(p) == [anchor |-> p, head |-> p]

\* the selection after the document changed: both ends stay inside it
ClampSelection(s, d) == [anchor |-> Min(s.anchor, Len(d)), head |-> Min(s.head, Len(d))]

(***************************************************************************)
(* The content script: the registered commands.                            *)
(***************************************************************************)
\* what the handler that awaits the command does with the result r
HandlerError(req, r) ==
    IF req.origin = "toggleCheckbox" /\ ~r.ret
    THEN "Failed to replace checkbox text"
    ELSE IF req.origin = "fetchLinkTitle" /\ ~r.ret
    THEN "Failed to replace link text"
    ELSE IF req.origin = "batchFetchLinkTitles" /\ ~r.ret
    THEN "Failed to update links in editor"
    ELSE "none"

HandlerToast(req, r) ==
    IF r.ret THEN req.onSuccess
    ELSE IF req.origin = "bulkTaskUpdate" THEN "Content changed; update aborted"
    ELSE IF req.origin = "fetchLinkTitle" THEN "Failed to fetch link title"
    ELSE IF req.origin = "batchFetchLinkTitles" THEN "Failed to fetch link titles"
    ELSE "none"

\* the effect of a replacement command on the editor and the record of it
CommandDone(op, r, hostThrows) ==
    /\ doc' = r.doc
    /\ tree' = ParseTree(r.doc)
    /\ sel' = ClampSelection(sel, r.doc)
    /\ last' = [LastNone EXCEPT !.op = op, !.pre = doc, !.req = Head(pending),
                                !.ret = r.ret, !.threw = r.threw,
                                !.dispatched = r.dispatched, !.compared = r.compared,
                                !.hostThrows = hostThrows,
                                !.error = HandlerError(Head(pending), r),
                                !.toast = HandlerToast(Head(pending), r)]
    /\ pending' = Tail(pending)
    /\ UNCHANGED <<lastRightClickPos, menu>>

\* contextUtils-replaceRange runs the oldest pending command
ExecReplaceRange ==
    /\ pending # <<>>
    /\ Head(pending).cmd = "replaceRange"
    /\ \E hostThrows \in BOOLEAN :
          CommandDone("replaceRange",
                      ReplaceRange(doc, Head(pending).newText, Head(pending).from,
                                   Head(pending).to, Head(pending).expectedText, hostThrows),
                      hostThrows)

\* contextUtils-batchReplace runs the oldest pending command
ExecBatchReplace ==
    /\ pending # <<>>
    /\ Head(pending).cmd = "batchReplace"
    /\ \E hostThrows \in BOOLEAN :
          CommandDone("batchReplace",
                      BatchReplace(doc, Head(pending).replacements, hostThrows),
                      hostThrows)

\* contextUtils-batchReplace runs a call whose entries do not have the
\* declared type
ExecBatchReplaceUntyped ==
    /\ pending # <<>>
    /\ Head(pending).cmd = "batchReplaceUntyped"
    /\ \E hostThrows \in BOOLEAN :
          CommandDone("batchReplaceUntyped",
                      BatchReplaceUntyped(doc, Head(pending).replacements, hostThrows),
                      hostThrows)

\* the position contextUtils-getContextAtCursor detects at
DetectionPosCursorOnly == sel.head

DetectionPos ==
    IF lastRightClickPos # NoPos /\ lastRightClickPos <= Len(doc)
    THEN lastRightClickPos
    ELSE sel.head

\* contextUtils-getContextAtCursor
GetContextAtCursor ==
    /\ last' = [LastNone EXCEPT !.op = "getContextAtCursor", !.pre = doc,
                                !.pos = DetectionPos,
                                !.contexts = DetectContextAtPosition(doc, tree, sel, DetectionPos)]
    /\ UNCHANGED <<doc, tree, sel, lastRightClickPos, menu, pending>>

\* the mousedown listener
MouseDown ==
    /\ lastRightClickPos' = NoPos
    /\ last' = [LastNone EXCEPT !.op = "mousedown"]
    /\ UNCHANGED <<doc, tree, sel, menu, pending>>

\* variant: no keydown listener is installed
KeyDownKeepsPosition ==
    /\ last' = [LastNone EXCEPT !.op = "keydown"]
    /\ UNCHANGED <<doc, tree, sel, lastRightClickPos, menu, pending>>

\* the keydown listener
KeyDown ==
    /\ lastRightClickPos' = NoPos
    /\ last' = [LastNone EXCEPT !.op = "keydown"]
    /\ UNCHANGED <<doc, tree, sel, menu, pending>>

\* the contextmenu listener; posAtCoords yields a document position or null
ContextMenu ==
    /\ \E p \in (0..Len(doc)) \cup {NoPos} :
          /\ lastRightClickPos' = IF p # NoPos THEN p ELSE lastRightClickPos
          /\ last' = [LastNone EXCEPT !.op = "contextmenu", !.pos = p]
    /\ UNCHANGED <<doc, tree, sel, menu, pending>>

(***************************************************************************)
(* The environment: the user moves the selection or edits the document.    *)
(***************************************************************************)
\* the selections explored for document d: a cursor at every offset, and
\* the ranges between the document ends and the end of the first line
Selections(d) ==
    LET RangeEnds == {0, LineTo(d, 0), Len(d)}
    IN {Cursor(p) : p \in 0..Len(d)}
       \cup {[anchor |-> a, head |-> h] : a \in RangeEnds, h \in RangeEnds}

SetSelection ==
    /\ \E s \in Selections(doc) : s # sel /\ sel' = s
    /\ last' = [LastNone EXCEPT !.op = "select"]
    /\ UNCHANGED <<doc, tree, lastRightClickPos, menu, pending>>

\* the documents an edit from outside the plugin may leave behind: the same
\* lines with other boxes ticked or other link texts, or everything replaced
\* by a short text
Variants(d) ==
    {d} \cup UNION {TreeSharers[f] : f \in {g \in DOMAIN TreeSharers : d \in TreeSharers[g]}}

Edits(d) == IF d = Docs.Plain THEN {} ELSE (Variants(d) \cup {Docs.Plain}) \ {d}

UserEdit ==
    /\ \E d \in Edits(doc) :
          /\ doc' = d
          /\ tree' = ParseTree(d)
          /\ sel' = ClampSelection(sel, d)
    /\ last' = [LastNone EXCEPT !.op = "edit", !.pre = doc]
    /\ UNCHANGED <<lastRightClickPos, menu, pending>>

(***************************************************************************)
(* The plugin side: the context menu filter and the command handlers.      *)
(***************************************************************************)
\* registerContextMenuFilter: the menu items carry the contexts returned by
\* contextUtils-getContextAtCursor; the exploration opens a menu only while
\* no command is in flight (a click on it may still come after later edits)
FilterEditorContextMenu ==
    /\ pending = <<>>
    /\ menu' = [doc |-> doc,
                contexts |-> DetectContextAtPosition(doc, tree, sel, DetectionPos)]
    /\ last' = [LastNone EXCEPT !.op = "menu", !.pre = doc, !.pos = DetectionPos,
                                !.contexts = DetectContextAtPosition(doc, tree, sel, DetectionPos)]
    /\ UNCHANGED <<doc, tree, sel, lastRightClickPos, pending>>

\* variant: the command is sent without the text the line had on detection
ToggleCheckboxRequestUnguarded(ctx) ==
    [ReplaceRangeRequest(JsString(ToggleCheckboxInLine(ctx.lineText, ~ctx.checked)),
                         JsNumber(ctx.from), JsNumber(ctx.to), JsUndefined)
        EXCEPT !.origin = "toggleCheckbox",
               !.onSuccess = IF ctx.checked THEN "Task unchecked" ELSE "Task checked"]

\* the command a Toggle Checkbox click sends
ToggleCheckboxRequest(ctx) ==
    [ReplaceRangeRequest(JsString(ToggleCheckboxInLine(ctx.lineText, ~ctx.checked)),
                         JsNumber(ctx.from), JsNumber(ctx.to), JsString(ctx.lineText))
        EXCEPT !.origin = "toggleCheckbox",
               !.onSuccess = IF ctx.checked THEN "Task unchecked" ELSE "Task checked"]

\* handleToggleCheckbox up to its await
HandleToggleCheckbox ==
    /\ Len(pending) < MaxPending
    /\ \E k \in 1..Len(menu.contexts) :
          /\ menu.contexts[k].contextType = "checkbox"
          /\ pending' = Append(pending, [ToggleCheckboxRequest(menu.contexts[k])
                                            EXCEPT !.basis = menu.doc])
    /\ last' = [LastNone EXCEPT !.op = "toggleCheckbox", !.pre = doc]
    /\ UNCHANGED <<doc, tree, sel, lastRightClickPos, menu>>

\* variant: every task of the selection is mapped to an entry
BulkReplacementsEveryTask(tasks, setChecked) ==
    [k \in 1..Len(tasks) |->
        [from |-> tasks[k].from, to |-> tasks[k].to,
         text |-> ToggleCheckboxInLine(tasks[k].lineText, setChecked),
         expectedText |-> JsString(tasks[k].lineText)]]

\* the entries handleBulkTaskUpdate maps the tasks that need changing to
BulkReplacements(tasks, setChecked) ==
    LET tasksToUpdate == SelectSeq(tasks, LAMBDA task : task.checked # setChecked)
    IN [k \in 1..Len(tasksToUpdate) |->
           [from |-> tasksToUpdate[k].from, to |-> tasksToUpdate[k].to,
            text |-> ToggleCheckboxInLine(tasksToUpdate[k].lineText, setChecked),
            expectedText |-> JsString(tasksToUpdate[k].lineText)]]

\* the toast handleBulkTaskUpdate shows when the batch succeeds
BulkToast(n, setChecked) ==
    (IF setChecked THEN "Checked" ELSE "Unchecked") \o " " \o ToString(n)
        \o (IF n # 1 THEN " tasks" ELSE " task")

\* handleBulkTaskUpdate (Check All Tasks, Uncheck All Tasks) up to its await;
\* nothing is sent when no task needs changing
HandleBulkTaskUpdate ==
    /\ Len(pending) < MaxPending
    /\ \E k \in 1..Len(menu.contexts), setChecked \in BOOLEAN :
          /\ menu.contexts[k].contextType = "taskSelection"
          /\ LET rs == BulkReplacements(menu.contexts[k].tasks, setChecked)
             IN pending' =
                   IF rs = <<>> THEN pending
                   ELSE Append(pending,
                               [BatchReplaceRequest(rs)
                                   EXCEPT !.origin = "bulkTaskUpdate",
                                          !.basis = menu.doc,
                                          !.onSuccess = BulkToast(Len(rs), setChecked)])
    /\ last' = [LastNone EXCEPT !.op = "bulkTaskUpdate", !.pre = doc]
    /\ UNCHANGED <<doc, tree, sel, lastRightClickPos, menu>>

\* sanitizeLinkTitle: square brackets are removed
SanitizeLinkTitle(title) == SelectSeq(title, LAMBDA c : c \notin {"[", "]"})

\* extractDomain: the host name of the URL without a leading www.
ExtractDomain(url) ==
    LET start == IF IsExternalUrl(url)
                 THEN (IF HasAt(url, 0, <<"h", "t", "t", "p", "s">>) THEN 9 ELSE 8)
                 ELSE 1
        stops == {j \in start..Len(url) : url[j] \in {"/", "?", "#", ":"}}
        end == IF stops = {} THEN Len(url) ELSE SetMin(stops) - 1
        host == SubSeq(url, start, end)
    IN IF HasAt(host, 0, <<"w", "w", "w", ".">>) THEN SubSeq(host, 5, Len(host)) ELSE host

\* titles the page behind a link may carry
PageTitles == {<<"t">>, <<"[", "t", "]">>}

\* what fetchLinkTitle resolves to: the sanitized title of the page, or the
\* domain when the request fails or the page has no title (none of the URLs
\* here is a Jira issue URL)
FetchLinkTitle(url) ==
    {[title |-> SanitizeLinkTitle(t), isFallback |-> FALSE] : t \in PageTitles}
        \cup {[title |-> ExtractDomain(url), isFallback |-> TRUE]}

\* the menu entry Fetch Link Title is built for this context
ShowsFetchLinkTitle(ctx) ==
    /\ ctx.contextType = "link"
    /\ ctx.type = "external-url"
    /\ ~ctx.isReferenceLink

\* the test at the head of handleFetchLinkTitle (the contexts of
\* detectPrimaryContext carry no isImage)
FetchLinkTitleRejects(ctx) == ctx.type # "external-url"

\* the command handleFetchLinkTitle sends: [title](url) over the whole
\* markdown link, or over the context span when there is none; the contexts
\* of detectPrimaryContext carry no linkTitleToken and no expectedText
FetchLinkTitleRequest(ctx, fetched) ==
    [ReplaceRangeRequest(JsString(<<"[">> \o fetched.title \o <<"]", "(">> \o ctx.url \o <<")">>),
                         JsNumber(IF ctx.markdownLinkFrom # -1 THEN ctx.markdownLinkFrom
                                  ELSE ctx.from),
                         JsNumber(IF ctx.markdownLinkTo # -1 THEN ctx.markdownLinkTo
                                  ELSE ctx.to),
                         JsUndefined)
        EXCEPT !.origin = "fetchLinkTitle",
               !.onSuccess = IF fetched.isFallback THEN "No title found, using domain name"
                             ELSE "Link title updated"]

\* the command contextUtils.fetchLinkTitle up to the await of the
\* replacement; it runs with the Link context it is given, from the menu
\* entry or from any other caller of the registered command; the context is
\* used once (the menu closes with the click)
HandleFetchLinkTitle ==
    /\ Len(pending) < MaxPending
    /\ \E k \in 1..Len(menu.contexts), fromMenu \in BOOLEAN :
          LET ctx == menu.contexts[k]
          IN /\ ctx.contextType = "link"
             /\ fromMenu => ShowsFetchLinkTitle(ctx)
             /\ IF FetchLinkTitleRejects(ctx)
                THEN /\ pending' = pending
                     /\ last' = [LastNone EXCEPT
                                    !.op = "fetchLinkTitle", !.pre = doc, !.contexts = <<ctx>>,
                                    !.threw = TRUE,
                                    !.error = "Fetch link title only works for non-image HTTP(S) links",
                                    !.toast = "Failed to fetch link title"]
                ELSE \E fetched \in FetchLinkTitle(ctx.url) :
                        /\ pending' = Append(pending, [FetchLinkTitleRequest(ctx, fetched)
                                                          EXCEPT !.basis = menu.doc])
                        /\ last' = [LastNone EXCEPT
                                       !.op = "fetchLinkTitle", !.pre = doc, !.contexts = <<ctx>>,
                                       !.req = [FetchLinkTitleRequest(ctx, fetched)
                                                   EXCEPT !.basis = menu.doc]]
    /\ menu' = NoMenu
    /\ UNCHANGED <<doc, tree, sel, lastRightClickPos>>

\* link.expectedText as handleBatchFetchLinkTitles reads it: undefined when
\* the object has no such property (detectLinksInSelection sets none)
ExpectedTextOf(link) ==
    IF "expectedText" \in DOMAIN link THEN JsString(link.expectedText) ELSE JsUndefined

\* the entries handleBatchFetchLinkTitles builds, fetched[k] being what
\* fetchLinkTitle resolved to for link k: [title](url) over the whole
\* markdown link, or over the link span when there is none (the links carry
\* no linkTitleToken)
BatchFetchReplacements(links, fetched) ==
    [k \in 1..Len(links) |->
        [from |-> IF links[k].markdownLinkFrom # -1 THEN links[k].markdownLinkFrom
                  ELSE links[k].from,
         to |-> IF links[k].markdownLinkTo # -1 THEN links[k].markdownLinkTo
                ELSE links[k].to,
         text |-> <<"[">> \o fetched[k].title \o <<"]", "(">> \o links[k].url \o <<")">>,
         expectedText |-> ExpectedTextOf(links[k])]]

\* the toast handleBatchFetchLinkTitles shows when the batch succeeds
BatchFetchToast(fetched) ==
    "Fetched " \o ToString(Cardinality({k \in 1..Len(fetched) : ~fetched[k].isFallback}))
        \o "/" \o ToString(Len(fetched)) \o " titles"

\* handleBatchFetchLinkTitles (Fetch All Link Titles) up to the await of the
\* batch: the titles of all links are fetched, then one batch is sent; the
\* context is used once (the menu closes with the click)
HandleBatchFetchLinkTitles ==
    /\ Len(pending) < MaxPending
    /\ \E k \in 1..Len(menu.contexts) :
          /\ menu.contexts[k].contextType = "linkSelection"
          /\ LET links == menu.contexts[k].links
             IN \E fetched \in [1..Len(links) -> UNION {FetchLinkTitle(links[j].url) :
                                                          j \in 1..Len(links)}] :
                   /\ \A j \in 1..Len(links) : fetched[j] \in FetchLinkTitle(links[j].url)
                   /\ LET req == [BatchReplaceRequest(BatchFetchReplacements(links, fetched))
                                     EXCEPT !.origin = "batchFetchLinkTitles",
                                            !.basis = menu.doc,
                                            !.onSuccess = BatchFetchToast(fetched)]
                      IN /\ pending' = Append(pending, req)
                         /\ last' = [LastNone EXCEPT !.op = "batchFetchLinkTitles",
                                                     !.pre = doc, !.req = req,
                                                     !.contexts = <<menu.contexts[k]>>]
    /\ menu' = NoMenu
    /\ UNCHANGED <<doc, tree, sel, lastRightClickPos>>

(***************************************************************************)
(* The replacement engine on its own: one command with arbitrary           *)
(* arguments reaches the content script of an arbitrary short document.    *)
(***************************************************************************)
EngineDocs == UNION {[1..n -> {"a", "b"}] : n \in 0..MaxDocLen}

EngineReplaceRangeRequests(d) ==
    LET EngineNewTexts ==
            {JsString(<<>>), JsString(<<"b">>), JsString(<<"b", "a">>), JsNumber(7),
             JsUndefined}
        EnginePositions ==
            {JsNumber(n) : n \in (0 - 1)..(Len(d) + 1)}
            \cup {JsNaN, JsInfinity, JsString(<<"a">>), JsUndefined}
        EngineExpectedTexts ==
            {JsUndefined, JsString(<<>>), JsString(<<"a">>), JsString(<<"a", "b">>)}
    IN {ReplaceRangeRequest(newText, from, to, expectedText) :
           newText \in EngineNewTexts, from \in EnginePositions,
           to \in EnginePositions, expectedText \in EngineExpectedTexts}

\* batch entries: every range up to one past the document end, one inverted range
EngineBatchReplaceRequests(d) ==
    LET EngineRanges ==
            {r \in (0..(Len(d) + 1)) \X (0..(Len(d) + 1)) : r[1] <= r[2]} \cup {<<1, 0>>}
        EngineEntryTexts ==
            {<<<<>>, JsUndefined>>, <<<<"b", "a">>, JsUndefined>>,
             <<<<"b", "a">>, JsString(<<"a">>)>>}
        EngineEntries ==
            {[from |-> r[1], to |-> r[2], text |-> x[1], expectedText |-> x[2]] :
                r \in EngineRanges, x \in EngineEntryTexts}
    IN {BatchReplaceRequest(rs) : rs \in UNION {[1..n -> EngineEntries] : n \in 0..MaxBatch}}

\* batches of entries that do not have the declared type: an infinite or
\* absent position, an absent text
EngineUntypedBatchRequests(d) ==
    LET EngineUntypedEntries ==
            {[from |-> f, to |-> t, text |-> x, expectedText |-> JsUndefined] :
                f \in {JsNumber(0), JsNumber(1), JsInfinity},
                t \in {JsNumber(0), JsNumber(1), JsInfinity, JsUndefined},
                x \in {JsString(<<"b">>), JsUndefined}}
            \cup {[from |-> JsNumber(0), to |-> JsUndefined, text |-> JsString(<<"b">>),
                   expectedText |-> e] : e \in {JsString(<<>>), JsString(<<"a">>)}}
    IN {[NoRequest EXCEPT !.cmd = "batchReplaceUntyped", !.replacements = rs] :
           rs \in UNION {[1..n -> EngineUntypedEntries] : n \in 0..MaxBatch}}

InitEngine ==
    /\ doc \in EngineDocs
    /\ tree = ParseTree(doc)
    /\ sel = Cursor(0)
    /\ lastRightClickPos = NoPos
    /\ menu = NoMenu
    /\ \/ \E req \in EngineReplaceRangeRequests(doc) \cup EngineBatchReplaceRequests(doc) :
             pending = <<req>>
       \/ \E req \in EngineUntypedBatchRequests(doc) : pending = <<req>>
    /\ last = LastNone

NextEngine == ExecReplaceRange \/ ExecBatchReplace \/ ExecBatchReplaceUntyped

SpecEngine == InitEngine /\ [][NextEngine]_vars

(***************************************************************************)
(* parsingUtils on its own: one call of findFootnoteDefinition,            *)
(* findReferenceDefinition or classifyUrl, its argument drawn from a       *)
(* bounded set, on a document made of whole lines.                         *)
(***************************************************************************)
MaxLines == 4

\* the lines joined with line breaks
RECURSIVE JoinLines(_)
JoinLines(lines) ==
    IF Len(lines) = 0 THEN <<>>
    ELSE IF Len(lines) = 1 THEN lines[1]
    ELSE lines[1] \o <<NL>> \o JoinLines(Tail(lines))

LineSeqs(alphabet) == UNION {[1..n -> alphabet] : n \in 1..MaxLines}

\* lines of the footnote documents: fences of both kinds, an indented fence,
\* definitions in either case and behind whitespace, other text
FootnoteLines ==
    {<<BT, BT, BT>>, <<"~", "~", "~">>, <<" ", BT, BT, BT>>,
     <<"[", "^", "a", "]", ":">>, <<"[", "^", "A", "]", ":">>,
     <<" ", "[", "^", "a", "]", ":">>, <<"x">>}

FootnoteLabels == {<<"a">>, <<"A">>, <<"b">>}

\* the tree of a document the parser has not worked on yet; the footnote
\* scan reads the text only
UnparsedTree(d) == <<Node("Document", 0, Len(d), 0)>>

\* lines of the reference documents: each is a definition [label]: url
ReferenceLines ==
    {<<"[", "a", "]", ":", " ", "#", "x">>, <<"[", "A", "]", ":", " ", "#", "y">>,
     <<"[", "a", "]", ":", " ", "#", "z">>, <<"[", "b", "]", ":", " ", "#", "x">>}

ReferenceLabels == {<<"[", "a", "]">>, <<"[", "A", "]">>, <<"[", "b", "]">>, <<"[", "c", "]">>}

\* the tree of a document of definition lines: one LinkReference per line
\* holding LinkLabel, LinkMark and URL
RECURSIVE ReferenceNodes(_, _, _, _)
ReferenceNodes(lines, k, off, acc) ==
    IF k > Len(lines) THEN acc
    ELSE LET ln == lines[k]
             i == Len(acc) + 1
         IN ReferenceNodes(lines, k + 1, off + Len(ln) + 1,
                acc \o <<Node("LinkReference", off, off + Len(ln), 1),
                         Node("LinkLabel", off, off + 3, i),
                         Node("LinkMark", off + 3, off + 4, i),
                         Node("URL", off + 5, off + Len(ln), i)>>)

ReferenceTree(lines) ==
    ReferenceNodes(lines, 1, 0, <<Node("Document", 0, Len(JoinLines(lines)), 0)>>)

\* arguments of classifyUrl: every rule, its near misses, and strings that
\* carry the mark of two rules
ClassifyUrlInputs ==
    LET Hex32 == [i \in 1..32 |-> IF i % 2 = 0 THEN "a" ELSE "1"]
        Hex32Upper == [i \in 1..32 |-> IF i % 2 = 0 THEN "F" ELSE "0"]
        ResourceId == <<":", "/">> \o Hex32
        HttpX == <<"h", "t", "t", "p", ":", "/", "/", "x">>
        MailtoA == <<"m", "a", "i", "l", "t", "o", ":", "a">>
    IN {<<>>, <<"x">>, ResourceId, <<":", "/">> \o Hex32Upper,
        ResourceId \o <<"#">>, ResourceId \o <<"#", "s">>, ResourceId \o <<"#", " ", "s">>,
        ResourceId \o <<"x">>, <<":", "/">> \o SubSeq(Hex32, 1, 31),
        <<":", "/">> \o SubSeq(Hex32, 1, 31) \o <<"g">>, <<"x">> \o ResourceId,
        MailtoA, <<"M", "A", "I", "L", "T", "O", ":", "a">>, SubSeq(MailtoA, 1, 7),
        SubSeq(MailtoA, 1, 6), MailtoA \o <<"#", "s">>, <<" ">> \o MailtoA,
        HttpX, <<"h", "t", "t", "p", "s", ":", "/", "/", "x">>,
        <<"H", "T", "T", "P", ":", "/", "/", "x">>, SubSeq(HttpX, 1, 6) \o <<"x">>,
        SubSeq(HttpX, 1, 7), HttpX \o <<"#", "s">>, HttpX \o <<" ", "#", "s">>,
        <<"f", "t", "p", ":", "/", "/", "x">>, <<"x", " ">> \o HttpX,
        <<"#", "s">>, <<"#">>, <<"#", "s", " ", "s">>, <<"#", " ", "s">>, <<"#", "s", NL>>,
        <<" ", "#", "s">>, <<"x", "#", "s">>, <<"#", "#">>, <<"#">> \o HttpX,
        <<"#">> \o MailtoA, <<"#">> \o ResourceId}

CallRequest(cmd, arg) == [NoRequest EXCEPT !.cmd = cmd, !.newText = JsString(arg)]

InitParse ==
    /\ sel = Cursor(0)
    /\ lastRightClickPos = NoPos
    /\ menu = NoMenu
    /\ last = LastNone
    /\ \/ \E lines \in LineSeqs(FootnoteLines), label \in FootnoteLabels :
             /\ doc = JoinLines(lines)
             /\ tree = UnparsedTree(doc)
             /\ pending = <<CallRequest("findFootnoteDefinition", label)>>
       \/ \E lines \in LineSeqs(ReferenceLines), label \in ReferenceLabels :
             /\ doc = JoinLines(lines)
             /\ tree = ReferenceTree(lines)
             /\ pending = <<CallRequest("findReferenceDefinition", label)>>
       \/ \E url \in ClassifyUrlInputs :
             /\ doc = <<>>
             /\ tree = UnparsedTree(doc)
             /\ pending = <<CallRequest("classifyUrl", url)>>

\* findFootnoteDefinition(view, label): the offset or null
CallFindFootnoteDefinition ==
    /\ pending # <<>>
    /\ Head(pending).cmd = "findFootnoteDefinition"
    /\ LET req == Head(pending)
           pos == FindFootnoteDefinition(doc, req.newText.s)
       IN last' = [LastNone EXCEPT !.op = "findFootnoteDefinition", !.pre = doc, !.req = req,
                                   !.value = IF pos = -1 THEN JsNull ELSE JsNumber(pos)]
    /\ pending' = Tail(pending)
    /\ UNCHANGED <<doc, tree, sel, lastRightClickPos, menu>>

\* findReferenceDefinition(view, label): the URL text or null
CallFindReferenceDefinition ==
    /\ pending # <<>>
    /\ Head(pending).cmd = "findReferenceDefinition"
    /\ LET req == Head(pending)
           u == FindReferenceDefinition(doc, tree, req.newText.s)
       IN last' = [LastNone EXCEPT !.op = "findReferenceDefinition", !.pre = doc, !.req = req,
                                   !.value = IF u = 0 THEN JsNull
                                             ELSE JsString(NodeText(doc, tree[u]))]
    /\ pending' = Tail(pending)
    /\ UNCHANGED <<doc, tree, sel, lastRightClickPos, menu>>

\* classifyUrl(url): the LinkType of the result or null
CallClassifyUrl ==
    /\ pending # <<>>
    /\ Head(pending).cmd = "classifyUrl"
    /\ LET req == Head(pending)
           type == ClassifyUrl(req.newText.s)
       IN last' = [LastNone EXCEPT !.op = "classifyUrl", !.pre = doc, !.req = req,
                                   !.value = IF type = "none" THEN JsNull
                                             ELSE JsString(<<type>>)]
    /\ pending' = Tail(pending)
    /\ UNCHANGED <<doc, tree, sel, lastRightClickPos, menu>>

NextParse == CallFindFootnoteDefinition \/ CallFindReferenceDefinition \/ CallClassifyUrl

SpecParse == InitParse /\ [][NextParse]_vars

(***************************************************************************)
(* Detection on its own: the listeners and contextUtils-getContextAtCursor *)
(* over the sample documents.                                              *)
(***************************************************************************)
InitDetect ==
    /\ doc \in FixtureDocs
    /\ tree = ParseTree(doc)
    /\ sel = Cursor(0)
    /\ lastRightClickPos = NoPos
    /\ menu = NoMenu
    /\ pending = <<>>
    /\ last = LastNone

NextDetect ==
    \/ SetSelection
    \/ MouseDown
    \/ KeyDown
    \/ ContextMenu
    \/ UserEdit
    \/ GetContextAtCursor

SpecDetect == InitDetect /\ [][NextDetect]_vars

(***************************************************************************)
(* The plugin as a whole: menus are built from detection, handlers send    *)
(* commands, the user may edit before a command runs.                      *)
(***************************************************************************)
Init ==
    /\ doc \in FixtureDocs
    /\ tree = ParseTree(doc)
    /\ sel \in Selections(doc)
    /\ lastRightClickPos = NoPos
    /\ menu = NoMenu
    /\ pending = <<>>
    /\ last = LastNone

Next ==
    \/ UserEdit
    \/ FilterEditorContextMenu
    \/ HandleToggleCheckbox
    \/ HandleBulkTaskUpdate
    \/ HandleFetchLinkTitle
    \/ HandleBatchFetchLinkTitles
    \/ ExecReplaceRange
    \/ ExecBatchReplace

Spec == Init /\ [][Next]_vars

(***************************************************************************)
(* Properties of the replacement engine (SpecEngine).                      *)
(***************************************************************************)
\* the arguments of the last replaceRange pass the three input checks
WellFormed(req) ==
    /\ req.newText.t = "string"
    /\ req.from.t = "number"
    /\ req.to.t = "number"
    /\ req.from.n <= req.to.n

\* entry e supplies an expectedText that differs from the slice [from,to) of d
EntryStale(d, e) ==
    /\ e.expectedText.t # "undefined"
    /\ e.expectedText # JsString(SliceString(d, e.from, e.to))

\* old[0,from) + text + old[to,end)
Splice(d, from, to, text) == SubSeq(d, 1, from) \o text \o SubSeq(d, to + 1, Len(d))

\* the range lies inside document d
InRange(d, from, to) == 0 <= from /\ from <= to /\ to <= Len(d)

\* C1: BatchReplace is all-or-nothing: when at least one entry that supplies
\* expectedText differs from the current slice, it returns false and the
\* document is identical to its state before the call
C1_BatchAllOrNothing ==
    (/\ last.op = "batchReplace"
     /\ \E i \in 1..Len(last.req.replacements) :
           EntryStale(last.pre, last.req.replacements[i]))
    => (last.ret = FALSE /\ ~last.dispatched /\ doc = last.pre)

\* an earlier entry matched, a later one is stale, nothing was applied
C1_Witness ==
    /\ last.op = "batchReplace"
    /\ Len(last.req.replacements) = 2
    /\ last.req.replacements[1].expectedText.t = "string"
    /\ ~EntryStale(last.pre, last.req.replacements[1])
    /\ InRange(last.pre, last.req.replacements[1].from, last.req.replacements[1].to)
    /\ EntryStale(last.pre, last.req.replacements[2])
    /\ last.ret = FALSE
    /\ doc = last.pre

\* C2: ReplaceRange with well-formed arguments and an expectedText that
\* differs from the current slice returns false and dispatches no change
C2_StaleReplaceRangeAborts ==
    (/\ last.op = "replaceRange"
     /\ WellFormed(last.req)
     /\ last.req.expectedText.t # "undefined"
     /\ last.req.expectedText # JsString(SliceString(last.pre, last.req.from.n, last.req.to.n)))
    => (last.ret = FALSE /\ ~last.dispatched /\ doc = last.pre)

\* a stale expectedText of the right length on a range that could be replaced
C2_Witness ==
    /\ last.op = "replaceRange"
    /\ WellFormed(last.req)
    /\ InRange(last.pre, last.req.from.n, last.req.to.n)
    /\ last.req.expectedText.t = "string"
    /\ Len(last.req.expectedText.s) = last.req.to.n - last.req.from.n
    /\ last.req.expectedText.s # SliceString(last.pre, last.req.from.n, last.req.to.n)
    /\ last.req.newText.s # SliceString(last.pre, last.req.from.n, last.req.to.n)
    /\ last.ret = FALSE
    /\ doc = last.pre

\* the last replaceRange got an expectedText equal to the slice [from,to)
ExpectedTextCorrect ==
    /\ last.op = "replaceRange"
    /\ WellFormed(last.req)
    /\ last.req.expectedText = JsString(SliceString(last.pre, last.req.from.n, last.req.to.n))

NonOverlapping(rs) ==
    \A i, j \in 1..Len(rs) : i # j => (rs[i].to <= rs[j].from \/ rs[j].to <= rs[i].from)

\* entry i rewrites a place of the document before the place of entry j
Precedes(rs, i, j) ==
    \/ rs[i].from < rs[j].from
    \/ rs[i].from = rs[j].from /\ rs[i].to < rs[j].to
    \/ rs[i].from = rs[j].from /\ rs[i].to = rs[j].to /\ i < j

\* document d with the range of every entry in S replaced by the text of the
\* entry, rewriting the last place first so that no range moves
RECURSIVE ReplaceEach(_, _, _)
ReplaceEach(d, rs, S) ==
    IF S = {} THEN d
    ELSE LET i == CHOOSE x \in S : \A y \in S \ {x} : Precedes(rs, y, x)
         IN ReplaceEach(Splice(d, rs[i].from, rs[i].to, rs[i].text), rs, S \ {i})

\* every entry of the last batchReplace validates and no two overlap
BatchValidates ==
    /\ last.op = "batchReplace"
    /\ \A i \in 1..Len(last.req.replacements) :
          ~EntryStale(last.pre, last.req.replacements[i])
    /\ NonOverlapping(last.req.replacements)

C6_MalformedRejected ==
    (last.op = "replaceRange" /\ ~WellFormed(last.req))
    => (/\ last.ret = FALSE
        /\ ~last.dispatched
        /\ ~last.compared
        /\ doc = last.pre)

\* from > to with an expectedText that would have been compared
C6_Witness ==
    /\ last.op = "replaceRange"
    /\ last.req.newText.t = "string"
    /\ last.req.from.t = "number"
    /\ last.req.to.t = "number"
    /\ last.req.from.n > last.req.to.n
    /\ last.req.expectedText.t = "string"
    /\ last.ret = FALSE
    /\ ~last.compared
    /\ doc = last.pre

\* the dispatch of the last command threw: a range the host rejects, or a
\* failure inside the host
DispatchThrew ==
    /\ last.op \in {"replaceRange", "batchReplace"}
    /\ last.dispatched
    /\ \/ last.hostThrows
       \/ last.op = "replaceRange"
          /\ ~InRange(last.pre, last.req.from.n, last.req.to.n)
       \/ last.op = "batchReplace"
          /\ \E i \in 1..Len(last.req.replacements) :
                ~InRange(last.pre, last.req.replacements[i].from,
                         last.req.replacements[i].to)

\* C7: if dispatch throws during ReplaceRange or BatchReplace, the command
\* returns false and no exception reaches the caller of the command
C7_DispatchFailureIsFalse ==
    DispatchThrew => (last.ret = FALSE /\ ~last.threw)

\* a batch whose range ends past the document end made dispatch throw
C7_Witness ==
    /\ DispatchThrew
    /\ last.op = "batchReplace"
    /\ ~last.hostThrows
    /\ last.ret = FALSE
    /\ ~last.threw
    /\ doc = last.pre

(***************************************************************************)
(* Properties of the handlers (Spec).                                      *)
(***************************************************************************)
\* the last step ran the replaceRange command of a Toggle Checkbox click
ToggleExecuted == last.op = "replaceRange" /\ last.req.origin = "toggleCheckbox"

\* C5 as stated: whenever the document was edited after the Checkbox context
\* was detected and before the Toggle Checkbox command executes, its
\* ReplaceRange returns false and the document stays as the edit left it
C5_Original ==
    (ToggleExecuted /\ last.pre # last.req.basis)
    => (last.ret = FALSE /\ doc = last.pre)

\* C5: whenever an edit after detection changed the text of the detected line
\* range [from,to) before the Toggle Checkbox command executes, its
\* ReplaceRange returns false and the document stays as the edit left it
C5_StaleToggleFails ==
    (/\ ToggleExecuted
     /\ SliceString(last.pre, last.req.from.n, last.req.to.n)
           # SliceString(last.req.basis, last.req.from.n, last.req.to.n))
    => (last.ret = FALSE /\ ~last.dispatched /\ doc = last.pre)

\* the box of the detected line was ticked by an edit before the toggle ran
C5_Witness ==
    /\ ToggleExecuted
    /\ last.pre \in Variants(last.req.basis)
    /\ SliceString(last.pre, last.req.from.n, last.req.to.n)
          # SliceString(last.req.basis, last.req.from.n, last.req.to.n)
    /\ last.ret = FALSE
    /\ doc = last.pre

(***************************************************************************)
(* Properties of detection (SpecDetect).                                   *)
(***************************************************************************)
\* the last step was a detection with a non-empty / an empty main selection
DetectedWithSelection == last.op = "getContextAtCursor" /\ sel.anchor # sel.head

DetectedAtCursor == last.op = "getContextAtCursor" /\ sel.anchor = sel.head

\* what the two selection scans find in the main selection
TasksFound == DetectTasksInSelection(doc, tree, SelFrom(sel), SelTo(sel))

LinksFound == DetectLinksInSelection(doc, tree, SelFrom(sel), SelTo(sel))

PrimaryTypes == {"code", "link", "footnote"}

\* C8: selection first, cursor second: with a non-empty selection in which a
\* scan finds something the result is exactly the non-empty selection
\* contexts, TaskSelection before LinkSelection; when both scans find nothing
\* the result is that of single-position detection at the position passed in
C8_SelectionFirst ==
    DetectedWithSelection
    => IF TasksFound # NoResult \/ LinksFound # NoResult
       THEN /\ last.contexts = (IF TasksFound # NoResult THEN <<TasksFound>> ELSE <<>>)
                               \o (IF LinksFound # NoResult THEN <<LinksFound>> ELSE <<>>)
            /\ \A k \in 1..Len(last.contexts) :
                  last.contexts[k].contextType \in {"taskSelection", "linkSelection"}
       ELSE last.contexts =
               (IF DetectPrimaryContext(doc, tree, last.pos) # NoResult
                THEN <<DetectPrimaryContext(doc, tree, last.pos)>> ELSE <<>>)
               \o (IF DetectCheckboxContext(doc, tree, last.pos) # NoResult
                   THEN <<DetectCheckboxContext(doc, tree, last.pos)>> ELSE <<>>)

\* a selection that holds a task and a link, under a cursor position where
\* single-position detection would find a link
C8_Witness ==
    /\ DetectedWithSelection
    /\ Len(last.contexts) = 2
    /\ last.contexts[1].contextType = "taskSelection"
    /\ last.contexts[2].contextType = "linkSelection"
    /\ DetectPrimaryContext(doc, tree, last.pos) # NoResult

\* C9: with an empty selection the result is at most one primary context
\* (Code, Link or Footnote) followed by at most one Checkbox context; the
\* checkbox check runs whether or not a primary context was found
C9_PrimaryThenCheckbox ==
    DetectedAtCursor
    => /\ Len(last.contexts) <= 2
       /\ Cardinality({k \in 1..Len(last.contexts) :
                          last.contexts[k].contextType \in PrimaryTypes}) <= 1
       /\ Cardinality({k \in 1..Len(last.contexts) :
                          last.contexts[k].contextType = "checkbox"}) <= 1
       /\ \A k \in 1..Len(last.contexts) :
             last.contexts[k].contextType \in PrimaryTypes \cup {"checkbox"}
       /\ \A j, k \in 1..Len(last.contexts) :
             (last.contexts[j].contextType \in PrimaryTypes
              /\ last.contexts[k].contextType = "checkbox") => j < k
       /\ (DetectCheckboxContext(doc, tree, last.pos) # NoResult)
             <=> (\E k \in 1..Len(last.contexts) :
                     last.contexts[k] = DetectCheckboxContext(doc, tree, last.pos))

\* inline code on a task line: a Code context, then the Checkbox context
C9_Witness ==
    /\ DetectedAtCursor
    /\ Len(last.contexts) = 2
    /\ last.contexts[1].contextType = "code"
    /\ last.contexts[2].contextType = "checkbox"

\* rank of a node kind in the documented order: inline/block code, markdown
\* link, markdown image, bare URL or autolink, HTML img tag
KindRank(name) ==
    IF name \in {"InlineCode", "CodeText", "FencedCode", "CodeBlock"} THEN 5
    ELSE IF name = "Link" THEN 4
    ELSE IF name = "Image" THEN 3
    ELSE IF name \in {"URL", "Autolink"} THEN 2
    ELSE IF name \in {"HTMLTag", "HTMLBlock"} THEN 1
    ELSE 0

\* the classifiable nodes that hold position pos strictly inside them
Enclosing(d, tr, pos) ==
    {i \in ClassifiedNodes(d, tr) : tr[i].from < pos /\ pos < tr[i].to}

\* C10: primary detection follows a fixed priority by node kind: at a
\* position enclosed by classifiable nodes the primary context is that of an
\* enclosing node of the highest kind in the order code, link, image,
\* URL/autolink, HTML img, whichever node encloses the other
C10_KindPriority ==
    (DetectedAtCursor /\ Enclosing(doc, tree, last.pos) # {})
    => \E i \in Enclosing(doc, tree, last.pos) :
          /\ \A j \in Enclosing(doc, tree, last.pos) :
                KindRank(tree[j].name) <= KindRank(tree[i].name)
          /\ Len(last.contexts) > 0
          /\ last.contexts[1] = ClassifyNode(doc, tree, i)

\* position pos lies inside (or at an end of) a Task node of the tree
InTaskNode(tr, pos) ==
    \E i \in 1..Len(tr) : tr[i].name = "Task" /\ tr[i].from <= pos /\ pos <= tr[i].to

\* the Checkbox contexts of the last detection
CheckboxesReturned ==
    {k \in 1..Len(last.contexts) : last.contexts[k].contextType = "checkbox"}

TaskSelectionsReturned ==
    {k \in 1..Len(last.contexts) : last.contexts[k].contextType = "taskSelection"}

\* C12: task selection is deduplicated per line: in every TaskSelection
\* context no two TaskInfo entries have the same line span
C12_OneTaskPerLine ==
    last.op = "getContextAtCursor"
    => \A k \in TaskSelectionsReturned :
          \A i, j \in 1..Len(last.contexts[k].tasks) :
             i # j => \/ last.contexts[k].tasks[i].from # last.contexts[k].tasks[j].from
                      \/ last.contexts[k].tasks[i].to # last.contexts[k].tasks[j].to

\* the selection covers two Task nodes that start on one line and the
\* context holds one TaskInfo for it
C12_Witness ==
    /\ DetectedWithSelection
    /\ Cardinality({i \in 1..Len(tree) :
                       /\ tree[i].name = "Task"
                       /\ SelFrom(sel) <= tree[i].from
                       /\ tree[i].to <= SelTo(sel)
                       /\ LineFrom(doc, tree[i].from) = 0}) = 2
    /\ TaskSelectionsReturned # {}
    /\ \A k \in TaskSelectionsReturned : Len(last.contexts[k].tasks) = 1

\* the LinkSelection contexts of the last detection
LinkSelectionsReturned ==
    {k \in 1..Len(last.contexts) : last.contexts[k].contextType = "linkSelection"}

\* the range [from,to) lies inside a node of the tree with one of the names
InsideNodeNamed(tr, names, from, to) ==
    \E i \in 1..Len(tr) : tr[i].name \in names /\ tr[i].from <= from /\ to <= tr[i].to

\* C13: every LinkInfo of a LinkSelection context is an external link that
\* comes from an inline markdown link, a bare URL or an autolink inside the
\* selection; reference-style links, markdown images and HTML img tags
\* contribute no LinkInfo
C13_ExternalInlineLinksOnly ==
    last.op = "getContextAtCursor"
    => \A k \in LinkSelectionsReturned :
          \A j \in 1..Len(last.contexts[k].links) :
             LET link == last.contexts[k].links[j]
             IN /\ link.type = "external-url"
                /\ InsideNodeNamed(tree, {"Link", "URL", "Autolink"}, link.from, link.to)
                /\ ~InsideNodeNamed(tree, {"Image", "LinkReference", "HTMLTag", "HTMLBlock"},
                                    link.from, link.to)

\* the entries of the link list links that lie inside node i of the tree
LinksInsideNode(tr, links, i) ==
    {j \in 1..Len(links) : tr[i].from <= links[j].from /\ links[j].to <= tr[i].to}

\* C14: link selection results are deduplicated: each inline markdown link
\* or autolink contributes one LinkInfo even when several nodes cover it (a
\* Link and its URL child, an Autolink and the URL nested in it), and no two
\* LinkInfo entries have the same span
C14_OneLinkInfoPerLink ==
    last.op = "getContextAtCursor"
    => \A k \in LinkSelectionsReturned :
          LET links == last.contexts[k].links
          IN /\ \A i, j \in 1..Len(links) :
                   i # j => (links[i].from # links[j].from \/ links[i].to # links[j].to)
             /\ \A i \in 1..Len(tree) :
                   tree[i].name \in {"Link", "Autolink"}
                   => Cardinality(LinksInsideNode(tree, links, i)) <= 1

(***************************************************************************)
(* Claims about parsingUtils                                               *)
(***************************************************************************)
\* the lines of a text
RECURSIVE SplitLines(_)
SplitLines(d) ==
    IF \A i \in 1..Len(d) : d[i] # NL THEN <<d>>
    ELSE LET i == CHOOSE j \in 1..Len(d) : d[j] = NL /\ \A h \in 1..(j - 1) : d[h] # NL
         IN <<SubSeq(d, 1, i - 1)>> \o SplitLines(SubSeq(d, i + 1, Len(d)))

\* offset of the first character of line k
RECURSIVE LineOffset(_, _)
LineOffset(lines, k) ==
    IF k <= 1 THEN 0 ELSE LineOffset(lines, k - 1) + Len(lines[k - 1]) + 1

StartsFence(line) ==
    /\ Len(line) >= 3
    /\ \/ \A j \in 1..3 : line[j] = BT
       \/ \A j \in 1..3 : line[j] = "~"

\* the inside-fence flag once line k has been read
RECURSIVE FenceFlag(_, _)
FenceFlag(lines, k) ==
    IF k = 0 THEN FALSE
    ELSE IF StartsFence(lines[k]) THEN ~FenceFlag(lines, k - 1)
    ELSE FenceFlag(lines, k - 1)

\* the line is a definition of the footnote: [^label]: in any letter case,
\* possibly indented
DefinesFootnote(line, label) ==
    \E w \in 0..Len(line) :
       /\ \A j \in 1..w : line[j] \in {" ", "\t"}
       /\ Len(line) >= w + Len(label) + 4
       /\ line[w + 1] = "[" /\ line[w + 2] = "^"
       /\ ToLowerCase(SubSeq(line, w + 3, w + 2 + Len(label))) = ToLowerCase(label)
       /\ line[w + 3 + Len(label)] = "]" /\ line[w + 4 + Len(label)] = ":"

OutsideDefinitions(lines, label) ==
    {k \in 1..Len(lines) : ~FenceFlag(lines, k) /\ DefinesFootnote(lines[k], label)}

FootnoteCalled == last.op = "findFootnoteDefinition"

C15_WitnessAllFenced ==
    /\ FootnoteCalled
    /\ last.value = JsNull
    /\ \E k \in 1..Len(SplitLines(last.pre)) :
          DefinesFootnote(SplitLines(last.pre)[k], last.req.newText.s)

ReferenceCalled == last.op = "findReferenceDefinition"

\* label and URL of a definition line [label]: url
DefinitionLabel(line) == SubSeq(line, 1, IndexOfChar(line, "]") + 1)
DefinitionUrl(line) == SubSeq(line, IndexOfChar(line, " ") + 2, Len(line))

SameLabel(a, b) == ToLowerCase(a) = ToLowerCase(b)

DefinitionsOf(lines, label) ==
    {k \in 1..Len(lines) : SameLabel(DefinitionLabel(lines[k]), label)}

\* what findReferenceDefinition answers in the current state
ReferenceAnswer(label) ==
    LET u == FindReferenceDefinition(doc, tree, label)
    IN IF u = 0 THEN JsNull ELSE JsString(NodeText(doc, tree[u]))

\* C16: findReferenceDefinition(label) answers with the URL of the first
\* definition, in document order, whose label equals the requested one when
\* letter case is ignored, and with null when no definition has that label; a
\* later definition of the same label never wins, and two labels that differ
\* in letter case only get the same answer.
C16_FirstDefinitionWins ==
    ReferenceCalled =>
        LET lines == SplitLines(last.pre)
            label == last.req.newText.s
            defs == DefinitionsOf(lines, label)
        IN /\ IF defs = {} THEN last.value = JsNull
              ELSE last.value = JsString(DefinitionUrl(lines[SetMin(defs)]))
           /\ \A other \in ReferenceLabels :
                 SameLabel(other, label) => ReferenceAnswer(other) = last.value

\* the first definition is written in the other letter case and a later
\* definition of the same label has another URL
C16_Witness ==
    /\ ReferenceCalled
    /\ last.value.t = "string"
    /\ LET lines == SplitLines(last.pre)
           label == last.req.newText.s
           defs == DefinitionsOf(lines, label)
       IN /\ DefinitionLabel(lines[SetMin(defs)]) # label
          /\ \E k \in defs : DefinitionUrl(lines[k]) # last.value.s

ClassifyCalled == last.op = "classifyUrl"

LinkTypes == {"joplin-resource", "email", "external-url", "internal-anchor"}

\* the rule of a link type recognises the URL
Recognises(type, url) ==
    \/ type = "joplin-resource" /\ IsJoplinResourceUrl(url)
    \/ type = "email" /\ IsEmailUrl(url)
    \/ type = "external-url" /\ IsExternalUrl(url)
    \/ type = "internal-anchor" /\ IsAnchorUrl(url)

\* C17: classifyUrl is total and deterministic: for every string it answers
\* with exactly one of resource, email, external, anchor or null and does not
\* throw; at most one of the four rules recognises a given string, so the
\* answer is the type of the one rule that recognises it, whatever the order
\* of the rules, and null when none does; the same string gets the same
\* answer on every call.
C17_ClassifyTotalExclusive ==
    ClassifyCalled =>
        LET url == last.req.newText.s
            types == {type \in LinkTypes : Recognises(type, url)}
        IN /\ ~last.threw
           /\ Cardinality(types) <= 1
           /\ last.value \in {JsNull} \cup {JsString(<<type>>) : type \in LinkTypes}
           /\ types = {} => last.value = JsNull
           /\ \A type \in types : last.value = JsString(<<type>>)
           /\ \A type \in LinkTypes : last.value = JsString(<<type>>) => type \in types

\* a string that starts as one rule demands and holds the mark of another
C17_Witness ==
    /\ ClassifyCalled
    /\ last.value.t = "string"
    /\ \E i \in 2..Len(last.req.newText.s) : last.req.newText.s[i] = "#"

\* a string no rule recognises
C17_WitnessNull ==
    /\ ClassifyCalled
    /\ last.value = JsNull
    /\ Len(last.req.newText.s) > 0

(***************************************************************************)
(* Claims about the title rewrite                                          *)
(***************************************************************************)
FetchInvoked == last.op = "fetchLinkTitle"

\* the span a command replaces is that of a reference-style link of the
\* document the command was made for
ReplacesReferenceLink(req) ==
    /\ req.from.t = "number"
    /\ LET ctx == DetectPrimaryContext(req.basis, ParseTree(req.basis), req.from.n)
       IN /\ ctx.contextType = "link"
          /\ ctx.isReferenceLink
          /\ ctx.from = req.from.n /\ JsNumber(ctx.to) = req.to

\* C18: the title rewrite refuses reference-style links: Fetch Link Title
\* invoked with a Link context whose isReferenceLink is true sends no
\* ReplaceRange, and no replacement made for such a link changes the document.
C18_ReferenceLinksRejected ==
    /\ FetchInvoked /\ last.contexts[1].isReferenceLink
          => /\ last.req = NoRequest
             /\ \A k \in 1..Len(pending) : pending[k].origin # "fetchLinkTitle"
    /\ last.op = "replaceRange" /\ last.req.origin = "fetchLinkTitle"
          /\ ReplacesReferenceLink(last.req)
          => doc = last.pre

(***************************************************************************)
(* Claims about the spans detection returns                                *)
(***************************************************************************)
\* 0 <= from <= to <= n
SpanInside(x, n) == 0 <= x.from /\ x.from <= x.to /\ x.to <= n

\* C19: every context detection returns, and every TaskInfo and LinkInfo
\* inside a selection context, has 0 <= from <= to <= length of the document
\* the detection ran on.
C19_SpansInsideDocument ==
    last.op = "getContextAtCursor" =>
        \A k \in 1..Len(last.contexts) :
           LET ctx == last.contexts[k]
           IN /\ SpanInside(ctx, Len(last.pre))
              /\ ctx.contextType = "taskSelection"
                    => \A i \in 1..Len(ctx.tasks) : SpanInside(ctx.tasks[i], Len(last.pre))
              /\ ctx.contextType = "linkSelection"
                    => \A i \in 1..Len(ctx.links) : SpanInside(ctx.links[i], Len(last.pre))

\* a selection over two task lines: the span of the last TaskInfo ends where
\* the document ends
C19_Witness ==
    /\ DetectedWithSelection
    /\ \E k \in TaskSelectionsReturned :
          /\ Len(last.contexts[k].tasks) = 2
          /\ last.contexts[k].tasks[2].to = Len(last.pre)
          /\ last.contexts[k].tasks[2].from > 0

\* a link selection and a context at the cursor, which ends where the
\* document ends
C19_WitnessLinks ==
    /\ last.op = "getContextAtCursor"
    /\ \E k \in 1..Len(last.contexts) :
          /\ last.contexts[k].contextType = "linkSelection"
          /\ Len(last.contexts[k].links) > 0
          /\ \E i \in 1..Len(last.contexts[k].links) : last.contexts[k].links[i].to = Len(last.pre)

(***************************************************************************)
(* Claims about the state detection reads                                  *)
(***************************************************************************)
\* the position detection looks at when a right-click position is remembered
\* and lies inside the document, the head of the selection otherwise
PositionLookedAt ==
    IF lastRightClickPos = NoPos \/ lastRightClickPos > Len(doc) THEN sel.head
    ELSE lastRightClickPos

RewriteFrom(link) ==
    IF link.markdownLinkFrom # -1 THEN link.markdownLinkFrom ELSE link.from

RewriteTo(link) ==
    IF link.markdownLinkTo # -1 THEN link.markdownLinkTo ELSE link.to

\* C21: every LinkInfo of a LinkSelection context carries an expectedText
\* equal to the document text of the range a title rewrite replaces for it:
\* the whole markdown link when markdownLinkFrom/To are set, else the span
\* from/to of the link itself
C21_LinksCarryExpectedText ==
    last.op = "getContextAtCursor"
    => \A k \in LinkSelectionsReturned :
          \A j \in 1..Len(last.contexts[k].links) :
             LET link == last.contexts[k].links[j]
             IN ExpectedTextOf(link)
                   = JsString(SubSeq(doc, RewriteFrom(link) + 1, RewriteTo(link)))

\* the last step ran the batch that Fetch All Link Titles sent
BatchFetchExecuted ==
    last.op = "batchReplace" /\ last.req.origin = "batchFetchLinkTitles"

\* entry e of a batch rewrites text that an edit changed after the document
\* basis was scanned
RangeEdited(basis, d, e) ==
    SliceString(d, e.from, e.to) # SliceString(basis, e.from, e.to)

\* C22: Fetch All Link Titles is atomic under concurrent edits: whatever was
\* edited between detection and the batch, the batch either leaves the
\* document as it found it or rewrites every link of the selection, and it
\* rewrites no range whose text changed since detection
C22_BatchFetchAtomic ==
    BatchFetchExecuted
    => \/ doc = last.pre
       \/ /\ doc = ApplyChanges(last.pre, BatchChanges(last.req.replacements))
          /\ \A i \in 1..Len(last.req.replacements) :
                ~RangeEdited(last.req.basis, last.pre, last.req.replacements[i])

(***************************************************************************)
(* Claims about the input checks of BatchReplace                           *)
(***************************************************************************)
\* entry e is malformed: from or to is not a finite number, from > to, or
\* text is not a string
MalformedEntry(e) ==
    ~(/\ IsNumber(e.from) /\ IsFinite(e.from)
      /\ IsNumber(e.to) /\ IsFinite(e.to)
      /\ e.from.n <= e.to.n
      /\ e.text.t = "string")

\* C23: BatchReplace rejects malformed input: given a list that holds a
\* malformed entry it returns false, applies no entry, leaves the document
\* unchanged and lets no exception escape
C23_BatchRejectsMalformed ==
    (/\ last.op = "batchReplaceUntyped"
     /\ \E i \in 1..Len(last.req.replacements) : MalformedEntry(last.req.replacements[i]))
    => (last.ret = FALSE /\ doc = last.pre /\ ~last.threw)

(***************************************************************************)
(* Claims about Footnote contexts                                          *)
(***************************************************************************)
\* the Footnote contexts of the last detection
FootnotesReturned ==
    {k \in 1..Len(last.contexts) : last.contexts[k].contextType = "footnote"}

\* some node of the tree that touches pos gives a code, link or image context
TreeGivesContext(d, tr, pos) ==
    \E i \in 1..Len(tr) :
       tr[i].from <= pos /\ pos <= tr[i].to /\ ClassifyNode(d, tr, i) # NoResult

\* C24: a Footnote context is a fallback: it is returned only when no node
\* at the position gives a code, link or image context, its span is a
\* reference [^label] on the line of the position that holds the position
\* (either end included), and the label has a definition outside fenced
\* code; a reference without such a definition gives no Footnote context
C24_FootnoteOnlyAsFallback ==
    DetectedAtCursor
    => \A k \in FootnotesReturned :
          LET c == last.contexts[k]
          IN /\ ~TreeGivesContext(doc, tree, last.pos)
             /\ c.from <= last.pos /\ last.pos <= c.to
             /\ LineFrom(doc, last.pos) <= c.from /\ c.to <= LineTo(doc, last.pos)
             /\ SubSeq(doc, c.from + 1, c.to) = <<"[", "^">> \o c.label \o <<"]">>
             /\ OutsideDefinitions(SplitLines(doc), c.label) # {}

\* a Footnote context returned for the position just past the closing
\* bracket of the reference
C24_Witness ==
    /\ DetectedAtCursor
    /\ FootnotesReturned # {}
    /\ \A k \in FootnotesReturned :
          /\ last.pos = last.contexts[k].to
          /\ last.contexts[k].from > 0

\* C25: the targetPos of every Footnote context is the start offset of the
\* line that holds the matching definition [^label]:, also when that line
\* begins with whitespace
C25_TargetIsLineStart ==
    DetectedAtCursor
    => \A k \in FootnotesReturned :
          LET lines == SplitLines(doc)
              found == OutsideDefinitions(lines, last.contexts[k].label)
          IN /\ found # {}
             /\ last.contexts[k].targetPos = LineOffset(lines, SetMin(found))

------------------------------------------------------------------------------
\* Claims about TaskSelection contexts

\* the Task nodes the selection touches
TaskNodesInSelection ==
    {i \in 1..Len(tree) : /\ tree[i].name = "Task"
                          /\ tree[i].from <= SelTo(sel)
                          /\ tree[i].to >= SelFrom(sel)}

\* C26: every TaskSelection context has a non-empty task list, its
\* checkedCount and uncheckedCount are the numbers of tasks with checked
\* true and false and add up to the length of the list; a selection in
\* which no task line is found gives no TaskSelection context
C26_TaskSelectionCounts ==
    last.op = "getContextAtCursor"
    => /\ \A k \in TaskSelectionsReturned :
             LET c == last.contexts[k]
             IN /\ Len(c.tasks) > 0
                /\ c.checkedCount
                      = Cardinality({j \in 1..Len(c.tasks) : c.tasks[j].checked})
                /\ c.uncheckedCount
                      = Cardinality({j \in 1..Len(c.tasks) : ~c.tasks[j].checked})
                /\ c.checkedCount + c.uncheckedCount = Len(c.tasks)
       /\ (\A i \in TaskNodesInSelection :
              CheckboxMatch(LineText(doc, tree[i].from)) = -1)
          => TaskSelectionsReturned = {}

\* a selection over a checked and an unchecked task line
C26_Witness ==
    /\ DetectedWithSelection
    /\ \E k \in TaskSelectionsReturned :
          /\ last.contexts[k].checkedCount > 0
          /\ last.contexts[k].uncheckedCount > 0

\* a selection that touches a Task node whose line does not match the
\* checkbox pattern gives no TaskSelection context
C26_WitnessNone ==
    /\ DetectedWithSelection
    /\ TaskNodesInSelection # {}
    /\ \A i \in TaskNodesInSelection :
          CheckboxMatch(LineText(doc, tree[i].from)) = -1
    /\ TaskSelectionsReturned = {}

------------------------------------------------------------------------------
\* Claims about Check All Tasks and Uncheck All Tasks

\* the TaskSelection contexts of the open menu
MenuTaskSelections ==
    {k \in 1..Len(menu.contexts) : menu.contexts[k].contextType = "taskSelection"}

\* the tasks of a selection whose state is not the target state, in order
TasksThatDiffer(tasks, setChecked) ==
    SelectSeq(tasks, LAMBDA t : t.checked # setChecked)

\* a click on Check All / Uncheck All sends nothing when no task differs and
\* otherwise one batch with one guarded entry per differing task
BulkClickSendsDiffering ==
    last'.op = "bulkTaskUpdate"
    => \E k \in MenuTaskSelections, setChecked \in BOOLEAN :
          LET differ == TasksThatDiffer(menu.contexts[k].tasks, setChecked)
          IN IF differ = <<>> THEN pending' = pending
             ELSE /\ Len(pending') = Len(pending) + 1
                  /\ SubSeq(pending', 1, Len(pending)) = pending
                  /\ LET req == pending'[Len(pending')]
                     IN /\ req.cmd = "batchReplace"
                        /\ req.onSuccess = BulkToast(Len(differ), setChecked)
                        /\ Len(req.replacements) = Len(differ)
                        /\ \A j \in 1..Len(differ) :
                              /\ req.replacements[j].from = differ[j].from
                              /\ req.replacements[j].to = differ[j].to
                              /\ req.replacements[j].expectedText
                                    = JsString(differ[j].lineText)

\* the batch of a bulk update ran
BulkExecuted == last.op = "batchReplace" /\ last.req.origin = "bulkTaskUpdate"

\* a failed batch is followed by the error toast and by no other command
BulkFailureSendsNothing ==
    (last'.op = "batchReplace" /\ last'.req.origin = "bulkTaskUpdate" /\ ~last'.ret)
    => /\ pending' = Tail(pending)
       /\ doc' = doc
       /\ last'.toast = "Content changed; update aborted"

\* offset of the character inside the box of a task line that starts at from
BoxOffset(lineText, from) == from + CheckboxMatch(lineText)

\* after a batch that succeeded on the document the menu was opened on,
\* every task line of the selection has the target state and no other
\* character differs (the tasks of the selection are read from the menu the
\* click came from, as long as that menu is still there)
BulkSuccessSetsTarget ==
    (BulkExecuted /\ last.ret /\ last.pre = last.req.basis /\ menu.doc = last.req.basis)
    => \E k \in MenuTaskSelections, setChecked \in BOOLEAN :
          LET tasks == menu.contexts[k].tasks
          IN /\ last.toast = BulkToast(Len(last.req.replacements), setChecked)
             /\ Len(doc) = Len(last.pre)
             /\ \A j \in 1..Len(tasks) :
                   /\ LineFrom(doc, tasks[j].from) = tasks[j].from
                   /\ CheckboxMatch(LineText(doc, tasks[j].from)) # -1
                   /\ TaskInfo(doc, tasks[j].from).checked = setChecked
             /\ \A p \in 1..Len(doc) :
                   doc[p] # last.pre[p]
                   => \E j \in 1..Len(tasks) :
                         /\ tasks[j].checked # setChecked
                         /\ p = BoxOffset(tasks[j].lineText, tasks[j].from) + 1

\* C27: Check All / Uncheck All sends one BatchReplace with exactly the
\* tasks whose state differs from the target, each guarded by its lineText,
\* and nothing when none differs; a batch that succeeds on the unedited
\* document leaves every task line of the selection in the target state and
\* changes no other character; after a failed batch no further replacement
\* is sent
C27_BulkUpdate ==
    /\ [][BulkClickSendsDiffering /\ BulkFailureSendsNothing]_vars
    /\ [](BulkSuccessSetsTarget)

\* a bulk update of a selection with a task that differs and one that does
\* not succeeded on the unedited document
C27_Witness ==
    /\ BulkExecuted
    /\ last.ret
    /\ last.pre = last.req.basis
    /\ doc # last.pre
    /\ \E k \in MenuTaskSelections :
          Len(last.req.replacements) < Len(menu.contexts[k].tasks)

\* a Check All / Uncheck All click on a selection none of whose tasks differs
C27_WitnessNothingSent ==
    /\ last.op = "bulkTaskUpdate"
    /\ pending = <<>>
    /\ MenuTaskSelections # {}

\* a bulk update failed on an edited document
C27_WitnessFailure == BulkExecuted /\ ~last.ret /\ last.pre # last.req.basis

------------------------------------------------------------------------------
\* Claims about the remembered right-click position

\* a step stores a position only in the contextmenu listener, and only the
\* position the event resolved to
SetOnlyByContextMenu ==
    (lastRightClickPos' # lastRightClickPos /\ lastRightClickPos' # NoPos)
    => (last'.op = "contextmenu" /\ last'.pos = lastRightClickPos')

\* mousedown and keydown clear the position
ClearedByMouseAndKey ==
    last'.op \in {"mousedown", "keydown"} => lastRightClickPos' = NoPos

\* a cleared position stays cleared until a contextmenu event
StaysClearedUntilContextMenu ==
    (lastRightClickPos = NoPos /\ last'.op # "contextmenu")
    => lastRightClickPos' = NoPos

\* the call detects at the remembered position when it is set and not
\* beyond the document end, and at the head of the selection otherwise
DetectsAtRememberedOrHead ==
    last'.op = "getContextAtCursor"
    => last'.pos = IF lastRightClickPos # NoPos /\ lastRightClickPos <= Len(doc)
                   THEN lastRightClickPos
                   ELSE sel.head

C28_WitnessCleared ==
    /\ last.op = "getContextAtCursor"
    /\ lastRightClickPos = NoPos
    /\ sel.head # 0
    /\ last.pos = sel.head

------------------------------------------------------------------------------
\* Claims about calls that supply no expectedText

\* the last replaceRange had well-formed arguments and no expectedText
UnguardedReplaceRange ==
    /\ last.op = "replaceRange"
    /\ WellFormed(last.req)
    /\ last.req.expectedText = JsUndefined

\* the last batchReplace had an entry without expectedText, every range had
\* from <= to, and every entry that supplied expectedText matched
BatchWithUnguardedEntry ==
    /\ last.op = "batchReplace"
    /\ \E i \in 1..Len(last.req.replacements) :
          last.req.replacements[i].expectedText = JsUndefined
    /\ \A i \in 1..Len(last.req.replacements) :
          /\ last.req.replacements[i].from <= last.req.replacements[i].to
          /\ ~EntryStale(last.pre, last.req.replacements[i])

\* no entry of the last batchReplace supplied expectedText
NoEntryGuarded ==
    \A i \in 1..Len(last.req.replacements) :
       last.req.replacements[i].expectedText = JsUndefined

\* the last batchReplace succeeded and, when no two entries overlap, left
\* the original with each range replaced by the text of its entry
BatchTookEffect ==
    /\ last.ret = TRUE
    /\ NonOverlapping(last.req.replacements)
       => doc = ReplaceEach(last.pre, last.req.replacements,
                            1..Len(last.req.replacements))

C29_WitnessBatch ==
    /\ BatchWithUnguardedEntry
    /\ \E i \in 1..Len(last.req.replacements) :
          /\ last.req.replacements[i].expectedText = JsUndefined
          /\ last.req.replacements[i].from < last.req.replacements[i].to
    /\ last.ret = TRUE
    /\ doc # last.pre

\* batchReplace on the empty list returned true
C29_WitnessEmpty ==
    /\ last.op = "batchReplace"
    /\ last.req.replacements = <<>>
    /\ last.pre # <<>>
    /\ last.ret = TRUE

------------------------------------------------------------------------------
\* Claims about toggleCheckboxInLine

\* the lines the handlers have toggled: the detected line text and the text
\* toggleCheckboxInLine returned for it, for every command in flight
ToggledLines(reqs) ==
    {<<reqs[k].expectedText.s, reqs[k].newText.s>> :
        k \in {j \in 1..Len(reqs) : reqs[j].origin = "toggleCheckbox"}}
    \cup UNION {{<<reqs[k].replacements[i].expectedText.s, reqs[k].replacements[i].text>> :
                    i \in 1..Len(reqs[k].replacements)} :
                 k \in {j \in 1..Len(reqs) : reqs[j].origin = "bulkTaskUpdate"}}

\* toggled differs from line in the character inside the task checkbox and
\* nowhere else, and toggling back gives line again
OneCharacterRoundTrip(line, toggled) ==
    LET box == CheckboxMatch(line) + 1
    IN /\ CheckboxMatch(line) # -1
       /\ Len(toggled) = Len(line)
       /\ \A j \in 1..Len(line) : (toggled[j] # line[j]) <=> (j = box)
       /\ toggled[box] = (IF line[box] = "x" THEN " " ELSE "x")
       /\ ToggleCheckboxInLine(toggled, line[box] = "x") = line

\* C30: for every line detected as a task line, toggleCheckboxInLine changes
\* only the character inside the task checkbox of the line (the first box
\* after the list marker) and keeps the line length, and checking then
\* unchecking an unchecked line, or unchecking then checking a checked one,
\* gives the original line text
C30_ToggleRoundTrip ==
    \A pair \in ToggledLines(pending) : OneCharacterRoundTrip(pair[1], pair[2])

\* number of boxes in line that are in the state of its task checkbox
BoxesLikeTaskBox(line) ==
    Cardinality({p \in 0..Len(line) :
                    HasAt(line, p, <<"[", line[CheckboxMatch(line) + 1], "]">>)})

\* a Toggle Checkbox click on a line that holds a second box in the state of
\* its task checkbox
C30_Witness ==
    /\ last.op = "toggleCheckbox"
    /\ \E pair \in ToggledLines(pending) :
          /\ BoxesLikeTaskBox(pair[1]) = 2
          /\ pair[2] # pair[1]

====
